---- MODULE Spec2Model ----
(***************************************************************************)
(* A model of the in-memory store of the Twitter-clone backend             *)
(* (src/server/storage.ts, class MemStorage).                              *)
(*                                                                         *)
(* Every Map<uuid, record> of the store is kept as the sequence of its     *)
(* values in insertion order, which is the order Array.from(map.values())  *)
(* yields and the order `find` and `filter` scan.  A key made by           *)
(* randomUUID() is fresh, so Map.set with it appends; Map.set with an      *)
(* existing key replaces the value in place; Map.delete removes one        *)
(* element.  Users are never removed, so a user's id is its position in    *)
(* `users`.  Tweets are referenced by id from outside the map, so they     *)
(* carry an explicit id drawn from the counter nextTweetId.                *)
(***************************************************************************)
EXTENDS Integers, Sequences, FiniteSets, TLC

\* ------------------------------------------------------------- bounds
MaxUsers == 3        \* users ever created
MaxFollows == 2      \* follow edges stored at a time
MaxEngagers == 2     \* user ids engageWithTweet is called with
MaxEngTweets == 2    \* tweet ids engageWithTweet is called with
MaxEngagements == 2  \* engagement records stored at a time
MaxAuthors == 2      \* users created while tweets are posted
MaxTweets == 2       \* tweets ever created

\* The id no stored user has (any string that is not a key of `users`).
NoUser == 0

NoErr == ""

VARIABLES
  users,        \* MemStorage.users, in insertion order; users[i].id = i
  tweets,       \* MemStorage.tweets, in insertion order
  mentions,     \* MemStorage.mentions, in insertion order
  follows,      \* MemStorage.follows, in insertion order
  engagements,  \* MemStorage.engagements, in insertion order
  tweetStats,   \* MemStorage.tweetStats: tweetId -> stats row
  nextTweetId,  \* number of tweet ids handed out so far
  now,          \* the clock new Date() reads
  everEngaged,  \* history: tweet ids for which engageWithTweet has succeeded
  requests,     \* register handlers suspended in `await hashPassword(...)`
  awaiting,     \* store calls suspended at an `await` of their own
  handlers,     \* PUT handlers suspended in the `await`s of their mention loop
  ret           \* outcome of the last call: the operation and the error thrown

vars == <<users, tweets, mentions, follows, engagements, tweetStats,
          nextTweetId, now, everEngaged, requests, awaiting, handlers,
          ret>>

\* The six maps are empty after `new MemStorage()`.
Init ==
  /\ users = <<>>
  /\ tweets = <<>>
  /\ mentions = <<>>
  /\ follows = <<>>
  /\ engagements = <<>>
  /\ tweetStats = <<>>
  /\ nextTweetId = 0
  /\ now = 0
  /\ everEngaged = {}
  /\ requests = <<>>
  /\ awaiting = <<>>
  /\ handlers = <<>>
  /\ ret = [op |-> "constructor", err |-> NoErr]

\* A call that returns normally / a call that throws Error(msg).
Returned(op) == [op |-> op, err |-> NoErr]
Threw(op, msg) == [op |-> op, err |-> msg]

\* ---------------------------------------------------------- sequences
\* The sequence s without its i-th element (Map.delete of one key).
RemoveAt(s, i) == [j \in 1..(Len(s) - 1) |-> IF j < i THEN s[j] ELSE s[j + 1]]

\* Array.prototype.find over a map's values: of the set S of the indices
\* that match, the first one; 0 when nothing matches (find's `undefined`).
FirstIndex(S) == IF S = {} THEN 0 ELSE CHOOSE i \in S : \A j \in S : i <= j

\* Array.prototype.filter is SelectSeq of the Sequences module.

\* ------------------------------------------------------------- users
Usernames == {<<"a">>, <<"b">>}
Emails == {"a@x"}
Passwords == {"pw"}

\* The InsertUser drafts createUser is called with.
Drafts == [username : Usernames, email : Emails, password : Passwords]

\* users.get(id) is defined
HasUser(id) == id \in 1..Len(users)

\* Every id a caller can name: the stored users' ids and one that is not stored.
UserRefs == {NoUser} \cup (1..Len(users))

createUser(insertUser) ==
  /\ Len(users) < MaxUsers
  /\ users' = Append(users,
       [id |-> Len(users) + 1,
        username |-> insertUser.username,
        email |-> insertUser.email,
        password |-> insertUser.password,
        followerCount |-> 0,
        followingCount |-> 0,
        tweetCount |-> 0])
  /\ ret' = Returned("createUser")
  /\ UNCHANGED <<tweets, mentions, follows, engagements, tweetStats,
                 nextTweetId, now, everEngaged, requests, awaiting, handlers>>

\* ------------------------------------------------------ social graph
\* Mutant of existingFollow: the edge is looked up in the wrong direction.
existingFollow_Reversed(fs, followerId, followingId) ==
  FirstIndex({i \in 1..Len(fs) :
    fs[i].followerId = followingId /\ fs[i].followingId = followerId})

\* Array.from(this.follows.values()).find(f => ...) over the follows map fs:
\* the index of the first edge followerId -> followingId, or 0.
existingFollow(fs, followerId, followingId) ==
  FirstIndex({i \in 1..Len(fs) :
    fs[i].followerId = followerId /\ fs[i].followingId = followingId})

\* Mutant of followCounts: the two counters are swapped between the users.
followCounts_Swapped(us, followerId, followingId) ==
  LET us1 == IF followerId \in 1..Len(us)
             THEN [us EXCEPT ![followerId] =
                     [us[followerId] EXCEPT !.followerCount = @ + 1]]
             ELSE us
  IN IF followingId \in 1..Len(us)
     THEN [us1 EXCEPT ![followingId] =
             [us[followingId] EXCEPT !.followingCount = @ + 1]]
     ELSE us1

\* The counter updates of followUser on the users map us.  `follower` and
\* `following` are both read before either is written back.
followCounts(us, followerId, followingId) ==
  LET follower == followerId \in 1..Len(us)
      following == followingId \in 1..Len(us)
      us1 == IF follower
             THEN [us EXCEPT ![followerId] =
                     [us[followerId] EXCEPT !.followingCount = @ + 1]]
             ELSE us
  IN IF following
     THEN [us1 EXCEPT ![followingId] =
             [us[followingId] EXCEPT !.followerCount = @ + 1]]
     ELSE us1

\* Mutant of followCall: the edge is stored before the duplicate is looked up.
followCall_WriteFirst(fs, us, followerId, followingId) ==
  LET fs1 == Append(fs, [followerId |-> followerId,
                         followingId |-> followingId])
  IN IF followerId = followingId
     THEN [follows |-> fs, users |-> us, err |-> "Cannot follow yourself"]
     ELSE IF existingFollow(fs, followerId, followingId) # 0
     THEN [follows |-> fs1, users |-> us,
           err |-> "Already following this user"]
     ELSE [follows |-> fs1,
           users |-> followCounts(us, followerId, followingId),
           err |-> NoErr]

\* followUser as a function of the maps it reads: the maps it leaves and the
\* error it throws (NoErr when it returns the new edge).
followCall(fs, us, followerId, followingId) ==
  IF followerId = followingId
  THEN [follows |-> fs, users |-> us, err |-> "Cannot follow yourself"]
  ELSE IF existingFollow(fs, followerId, followingId) # 0
  THEN [follows |-> fs, users |-> us, err |-> "Already following this user"]
  ELSE [follows |-> Append(fs, [followerId |-> followerId,
                                followingId |-> followingId]),
        users |-> followCounts(us, followerId, followingId),
        err |-> NoErr]

followUser(followerId, followingId) ==
  LET r == followCall(follows, users, followerId, followingId)
  IN /\ r.err = NoErr => Len(follows) < MaxFollows
     /\ follows' = r.follows
     /\ users' = r.users
     /\ ret' = [op |-> "followUser", err |-> r.err]
     /\ UNCHANGED <<tweets, mentions, engagements, tweetStats,
                    nextTweetId, now, everEngaged, requests, awaiting, handlers>>

Max(a, b) == IF a >= b THEN a ELSE b

\* Mutant of unfollowCounts: only the follower's counter is taken back.
unfollowCounts_FollowerOnly(us, followerId, followingId) ==
  IF followerId \in 1..Len(us)
  THEN [us EXCEPT ![followerId] =
          [us[followerId] EXCEPT !.followingCount = Max(0, @ - 1)]]
  ELSE us

\* Mutant of unfollowCounts: the counters are left as they are.
unfollowCounts_Unchanged(us, followerId, followingId) == us

\* The counter updates of unfollowUser: Math.max(0, count - 1).
unfollowCounts(us, followerId, followingId) ==
  LET follower == followerId \in 1..Len(us)
      following == followingId \in 1..Len(us)
      us1 == IF follower
             THEN [us EXCEPT ![followerId] =
                     [us[followerId] EXCEPT
                        !.followingCount = Max(0, @ - 1)]]
             ELSE us
  IN IF following
     THEN [us1 EXCEPT ![followingId] =
             [us[followingId] EXCEPT !.followerCount = Max(0, @ - 1)]]
     ELSE us1

unfollowCall(fs, us, followerId, followingId) ==
  LET follow == existingFollow(fs, followerId, followingId)
  IN IF follow = 0
     THEN [follows |-> fs, users |-> us, err |-> "Not following this user"]
     ELSE [follows |-> RemoveAt(fs, follow),
           users |-> unfollowCounts(us, followerId, followingId),
           err |-> NoErr]

unfollowUser(followerId, followingId) ==
  LET r == unfollowCall(follows, users, followerId, followingId)
  IN /\ follows' = r.follows
     /\ users' = r.users
     /\ ret' = [op |-> "unfollowUser", err |-> r.err]
     /\ UNCHANGED <<tweets, mentions, engagements, tweetStats,
                    nextTweetId, now, everEngaged, requests, awaiting, handlers>>

\* One draft is enough for the graph: the store accepts equal drafts, and
\* the graph operations read nothing of a user but its counters.
GraphDraft == [username |-> <<"a">>, email |-> "a@x", password |-> "pw"]

NextGraph ==
  \/ createUser(GraphDraft)
  \/ \E a \in UserRefs, b \in UserRefs : followUser(a, b)
  \/ \E a \in UserRefs, b \in UserRefs : unfollowUser(a, b)

SpecGraph == Init /\ [][NextGraph]_vars

\* -------------------------------------------------------- engagement
EngagementTypes == {"like", "retweet", "bookmark"}

\* engageWithTweet and removeEngagement look at neither the users nor the
\* tweets map, so the ids they are called with are drawn freely.
EngagerIds == 1..MaxEngagers
EngTweetIds == 1..MaxEngTweets

\* Mutant of existingEngagement: the user id and the tweet id are compared
\* with each other's field.
existingEngagement_SwappedIds(es, userId, tweetId, type) ==
  FirstIndex({i \in 1..Len(es) :
    es[i].userId = tweetId /\ es[i].tweetId = userId /\ es[i].type = type})

\* Array.from(this.engagements.values()).find(e => ...) over the map es:
\* the index of the first record (userId, tweetId, type), or 0.
existingEngagement(es, userId, tweetId, type) ==
  FirstIndex({i \in 1..Len(es) :
    es[i].userId = userId /\ es[i].tweetId = tweetId /\ es[i].type = type})

\* The stats row updateTweetStatsForEngagement starts from when the tweet
\* has none.  (updatedAt is not modelled: nothing reads it.)
NewStats(tweetId) ==
  [tweetId |-> tweetId, replyCount |-> 0, retweetCount |-> 0,
   likeCount |-> 0, bookmarkCount |-> 0, impressionCount |-> 0]

\* Mutant of updateTweetStatsForEngagement: a tweet without a stats row gets
\* none (an early return instead of the lazily created row).
updateTweetStatsForEngagement_NoLazyRow(ts, tweetId, type, delta) ==
  IF tweetId \notin DOMAIN ts THEN ts
  ELSE [ts EXCEPT ![tweetId] =
          CASE type = "like" -> [@ EXCEPT !.likeCount = Max(0, @ + delta)]
            [] type = "retweet" ->
                 [@ EXCEPT !.retweetCount = Max(0, @ + delta)]
            [] type = "bookmark" ->
                 [@ EXCEPT !.bookmarkCount = Max(0, @ + delta)]
            [] OTHER -> @]

\* Mutant of updateTweetStatsForEngagement: a retweet moves the likeCount.
updateTweetStatsForEngagement_RetweetAsLike(ts, tweetId, type, delta) ==
  LET stats == IF tweetId \in DOMAIN ts THEN ts[tweetId] ELSE NewStats(tweetId)
      updated ==
        CASE type \in {"like", "retweet"} ->
               [stats EXCEPT !.likeCount = Max(0, @ + delta)]
          [] type = "bookmark" ->
               [stats EXCEPT !.bookmarkCount = Max(0, @ + delta)]
          [] OTHER -> stats
  IN [t \in DOMAIN ts \cup {tweetId} |->
        IF t = tweetId THEN updated ELSE ts[t]]

\* updateTweetStatsForEngagement on the stats map ts: the map it leaves.
updateTweetStatsForEngagement(ts, tweetId, type, delta) ==
  LET stats == IF tweetId \in DOMAIN ts THEN ts[tweetId] ELSE NewStats(tweetId)
      updated ==
        CASE type = "like" ->
               [stats EXCEPT !.likeCount = Max(0, @ + delta)]
          [] type = "retweet" ->
               [stats EXCEPT !.retweetCount = Max(0, @ + delta)]
          [] type = "bookmark" ->
               [stats EXCEPT !.bookmarkCount = Max(0, @ + delta)]
          [] OTHER -> stats
  IN [t \in DOMAIN ts \cup {tweetId} |->
        IF t = tweetId THEN updated ELSE ts[t]]

\* Mutant of engageCall: the record is stored and the stats row is left to
\* a later run.
engageCall_RecordOnly(es, ts, userId, tweetId, type) ==
  IF existingEngagement(es, userId, tweetId, type) # 0
  THEN [engagements |-> es, tweetStats |-> ts,
        err |-> "Already " \o type \o "d this tweet"]
  ELSE [engagements |-> Append(es, [userId |-> userId, tweetId |-> tweetId,
                                    type |-> type]),
        tweetStats |-> ts,
        err |-> NoErr]

\* engageWithTweet as a function of the maps it reads: the maps it leaves and
\* the error it throws (NoErr when it returns the new record).
engageCall(es, ts, userId, tweetId, type) ==
  IF existingEngagement(es, userId, tweetId, type) # 0
  THEN [engagements |-> es, tweetStats |-> ts,
        err |-> "Already " \o type \o "d this tweet"]
  ELSE [engagements |-> Append(es, [userId |-> userId, tweetId |-> tweetId,
                                    type |-> type]),
        tweetStats |-> updateTweetStatsForEngagement(ts, tweetId, type, 1),
        err |-> NoErr]

engageWithTweet(userId, tweetId, type) ==
  LET r == engageCall(engagements, tweetStats, userId, tweetId, type)
  IN /\ r.err = NoErr => Len(engagements) < MaxEngagements
     /\ engagements' = r.engagements
     /\ tweetStats' = r.tweetStats
     /\ everEngaged' = IF r.err = NoErr THEN everEngaged \cup {tweetId}
                       ELSE everEngaged
     /\ ret' = [op |-> "engageWithTweet", err |-> r.err]
     /\ UNCHANGED <<users, tweets, mentions, follows, nextTweetId, now,
                    requests, awaiting, handlers>>

\* Mutant of removeCall: the stats are updated before the record is looked up.
removeCall_StatsFirst(es, ts, userId, tweetId, type) ==
  LET engagement == existingEngagement(es, userId, tweetId, type)
      ts1 == updateTweetStatsForEngagement(ts, tweetId, type, -1)
  IN IF engagement = 0
     THEN [engagements |-> es, tweetStats |-> ts1,
           err |-> "No " \o type \o " found for this tweet"]
     ELSE [engagements |-> RemoveAt(es, engagement), tweetStats |-> ts1,
           err |-> NoErr]

\* Mutant of removeCall: the record is deleted and the stats are left alone.
removeCall_NoStats(es, ts, userId, tweetId, type) ==
  LET engagement == existingEngagement(es, userId, tweetId, type)
  IN IF engagement = 0
     THEN [engagements |-> es, tweetStats |-> ts,
           err |-> "No " \o type \o " found for this tweet"]
     ELSE [engagements |-> RemoveAt(es, engagement), tweetStats |-> ts,
           err |-> NoErr]

removeCall(es, ts, userId, tweetId, type) ==
  LET engagement == existingEngagement(es, userId, tweetId, type)
  IN IF engagement = 0
     THEN [engagements |-> es, tweetStats |-> ts,
           err |-> "No " \o type \o " found for this tweet"]
     ELSE [engagements |-> RemoveAt(es, engagement),
           tweetStats |-> updateTweetStatsForEngagement(ts, tweetId, type, -1),
           err |-> NoErr]

removeEngagement(userId, tweetId, type) ==
  LET r == removeCall(engagements, tweetStats, userId, tweetId, type)
  IN /\ engagements' = r.engagements
     /\ tweetStats' = r.tweetStats
     /\ ret' = [op |-> "removeEngagement", err |-> r.err]
     /\ UNCHANGED <<users, tweets, mentions, follows, nextTweetId, now,
                    everEngaged, requests, awaiting, handlers>>

\* getTweetStats: the row, or `undefined` (a value that is no stats row).
Undefined == [undefined |-> TRUE]
getTweetStats(tweetId) ==
  IF tweetId \in DOMAIN tweetStats THEN tweetStats[tweetId] ELSE Undefined

\* getUserEngagement: Array.from(this.engagements.values()).filter(...).
getUserEngagement(userId, tweetId) ==
  SelectSeq(engagements,
    LAMBDA e : e.userId = userId /\ e.tweetId = tweetId)

NextEngage ==
  \/ \E u \in EngagerIds, t \in EngTweetIds, k \in EngagementTypes :
       engageWithTweet(u, t, k)
  \/ \E u \in EngagerIds, t \in EngTweetIds, k \in EngagementTypes :
       removeEngagement(u, t, k)

SpecEngage == Init /\ [][NextEngage]_vars

\* ------------------------------------------------------------ tweets
\* Strings that are scanned are sequences of one-character strings.
\* \w of the mention pattern is [A-Za-z0-9_]; of the characters used here
\* those are a and b.
WordChars == {"a", "b"}

\* The tweet contents createTweet and updateTweet are called with:
\* "@ab" (whose token is ab, not a) and "@a@a" (a mentioned twice).
Contents == {<<"@", "a", "b">>, <<"@", "a", "@", "a">>}

\* The id no tweet has.
NoTweet == 0

\* Every tweet id a caller can name: those handed out (deleted ones too)
\* and one that never was.
TweetRefs == {NoTweet} \cup (1..nextTweetId)

\* Index in the tweets map ts of the tweet with this id, or 0: Map.get/has.
TweetIndex(ts, id) == FirstIndex({i \in 1..Len(ts) : ts[i].id = id})

\* getTweetById: its result is the tweet, or `undefined`.
getTweetById(id) ==
  IF TweetIndex(tweets, id) # 0 THEN tweets[TweetIndex(tweets, id)]
  ELSE Undefined

\* What new Date() can read next: the time of the last reading, or a later
\* one.  Readings are only compared with each other, so the first one is
\* the origin.
ClockReadings == IF nextTweetId = 0 THEN {now} ELSE {now, now + 1}

\* Mutant of createTweet: the author's tweetCount is raised.
createTweet_CountsTweet(content, authorId, at) ==
  /\ nextTweetId < MaxTweets
  /\ at \in ClockReadings
  /\ now' = at
  /\ nextTweetId' = nextTweetId + 1
  /\ tweets' = Append(tweets,
       [id |-> nextTweetId + 1,
        content |-> content,
        authorId |-> authorId,
        createdAt |-> at])
  /\ users' = IF HasUser(authorId)
              THEN [users EXCEPT ![authorId].tweetCount = @ + 1]
              ELSE users
  /\ ret' = Returned("createTweet")
  /\ UNCHANGED <<mentions, follows, engagements, tweetStats,
                 everEngaged, requests, awaiting, handlers>>

\* createTweet at a clock reading `at`.
createTweet(content, authorId, at) ==
  /\ nextTweetId < MaxTweets
  /\ at \in ClockReadings
  /\ now' = at
  /\ nextTweetId' = nextTweetId + 1
  /\ tweets' = Append(tweets,
       [id |-> nextTweetId + 1,
        content |-> content,
        authorId |-> authorId,
        createdAt |-> at])
  /\ ret' = Returned("createTweet")
  /\ UNCHANGED <<users, mentions, follows, engagements, tweetStats,
                 everEngaged, requests, awaiting, handlers>>

\* Mutant of updateTweet: the tweet is stored anew, stamped with the time of
\* the edit.
updateTweet_Restamped(id, content) ==
  LET existingTweet == TweetIndex(tweets, id)
  IN /\ IF existingTweet = 0
        THEN /\ ret' = Threw("updateTweet", "Tweet not found")
             /\ UNCHANGED tweets
        ELSE /\ tweets' = [tweets EXCEPT ![existingTweet] =
                             [@ EXCEPT !.content = content,
                                       !.createdAt = now + 1]]
             /\ ret' = Returned("updateTweet")
     /\ UNCHANGED <<users, mentions, follows, engagements, tweetStats,
                    nextTweetId, now, everEngaged, requests, awaiting, handlers>>

updateTweet(id, content) ==
  LET existingTweet == TweetIndex(tweets, id)
  IN /\ IF existingTweet = 0
        THEN /\ ret' = Threw("updateTweet", "Tweet not found")
             /\ UNCHANGED tweets
        ELSE /\ tweets' = [tweets EXCEPT ![existingTweet].content = content]
             /\ ret' = Returned("updateTweet")
     /\ UNCHANGED <<users, mentions, follows, engagements, tweetStats,
                    nextTweetId, now, everEngaged, requests, awaiting, handlers>>

\* Mutant of deleteTweet: the mention rows of the tweet are left behind.
deleteTweet_NoCascade(id) ==
  LET deleted == TweetIndex(tweets, id)
  IN /\ IF deleted = 0
        THEN /\ ret' = Threw("deleteTweet", "Tweet not found")
             /\ UNCHANGED <<tweets, mentions>>
        ELSE /\ tweets' = RemoveAt(tweets, deleted)
             /\ UNCHANGED mentions
             /\ ret' = Returned("deleteTweet")
     /\ UNCHANGED <<users, follows, engagements, tweetStats,
                    nextTweetId, now, everEngaged, requests, awaiting, handlers>>

\* Mutant of deleteTweet: the mention rows are removed before the tweet is
\* looked up.
deleteTweet_CascadeFirst(id) ==
  LET deleted == TweetIndex(tweets, id)
  IN /\ mentions' = SelectSeq(mentions, LAMBDA m : m.tweetId # id)
     /\ IF deleted = 0
        THEN /\ ret' = Threw("deleteTweet", "Tweet not found")
             /\ UNCHANGED tweets
        ELSE /\ tweets' = RemoveAt(tweets, deleted)
             /\ ret' = Returned("deleteTweet")
     /\ UNCHANGED <<users, follows, engagements, tweetStats,
                    nextTweetId, now, everEngaged, requests, awaiting, handlers>>

\* Mutant of deleteTweet: the deletion cascades to the tweet's engagement
\* records and stats row.
deleteTweet_DropsStats(id) ==
  LET deleted == TweetIndex(tweets, id)
  IN /\ IF deleted = 0
        THEN /\ ret' = Threw("deleteTweet", "Tweet not found")
             /\ UNCHANGED <<tweets, mentions, engagements, tweetStats>>
        ELSE /\ tweets' = RemoveAt(tweets, deleted)
             /\ mentions' = SelectSeq(mentions, LAMBDA m : m.tweetId # id)
             /\ engagements' =
                  SelectSeq(engagements, LAMBDA e : e.tweetId # id)
             /\ tweetStats' =
                  [t \in DOMAIN tweetStats \ {id} |-> tweetStats[t]]
             /\ ret' = Returned("deleteTweet")
     /\ UNCHANGED <<users, follows, nextTweetId, now, everEngaged, requests,
                    awaiting, handlers>>

deleteTweet(id) ==
  LET deleted == TweetIndex(tweets, id)
  IN /\ IF deleted = 0
        THEN /\ ret' = Threw("deleteTweet", "Tweet not found")
             /\ UNCHANGED <<tweets, mentions>>
        ELSE /\ tweets' = RemoveAt(tweets, deleted)
             /\ mentions' = SelectSeq(mentions, LAMBDA m : m.tweetId # id)
             /\ ret' = Returned("deleteTweet")
     /\ UNCHANGED <<users, follows, engagements, tweetStats,
                    nextTweetId, now, everEngaged, requests, awaiting, handlers>>

\* The word run of content c that starts at i ends here (i - 1 if c[i] is no
\* word character): the greedy \w+.
RECURSIVE WordEnd(_, _)
WordEnd(c, i) ==
  IF i <= Len(c) /\ c[i] \in WordChars THEN WordEnd(c, i + 1) ELSE i - 1

\* The exec loop of /@(\w+)/g from position i on: each match's group 1, in
\* order of appearance; the scan goes on after the match.
RECURSIVE MentionsFrom(_, _)
MentionsFrom(c, i) ==
  IF i > Len(c) THEN <<>>
  ELSE IF c[i] = "@" /\ WordEnd(c, i + 1) >= i + 1
  THEN <<SubSeq(c, i + 1, WordEnd(c, i + 1))>>
         \o MentionsFrom(c, WordEnd(c, i + 1) + 1)
  ELSE MentionsFrom(c, i + 1)

extractMentionsFromContent(content) == MentionsFrom(content, 1)

\* The comparator of the tweet lists, (a, b) => b.createdAt - a.createdAt,
\* under Array.prototype.sort, which is stable: x goes behind every element
\* that is not older than it.
InsertByCreatedAt(sorted, x) ==
  LET k == Cardinality({i \in 1..Len(sorted) :
                          sorted[i].createdAt >= x.createdAt})
  IN SubSeq(sorted, 1, k) \o <<x>> \o SubSeq(sorted, k + 1, Len(sorted))

RECURSIVE SortNewestFirst(_)
SortNewestFirst(s) ==
  IF s = <<>> THEN <<>>
  ELSE InsertByCreatedAt(SortNewestFirst(SubSeq(s, 1, Len(s) - 1)),
                         s[Len(s)])

\* The loop of getAllTweets: every tweet whose author is stored, with the
\* author and the extracted mentions.
RECURSIVE tweetsWithAuthors(_)
tweetsWithAuthors(ts) ==
  IF ts = <<>> THEN <<>>
  ELSE LET tweet == Head(ts)
       IN (IF HasUser(tweet.authorId)
           THEN <<[id |-> tweet.id,
                   content |-> tweet.content,
                   authorId |-> tweet.authorId,
                   createdAt |-> tweet.createdAt,
                   author |-> users[tweet.authorId],
                   mentions |-> extractMentionsFromContent(tweet.content)]>>
           ELSE <<>>) \o tweetsWithAuthors(Tail(ts))

getAllTweets == SortNewestFirst(tweetsWithAuthors(tweets))

\* Array.from(this.users.values()).find(u => u.username === mention)?.id:
\* the id of the first user of that name, or NoUser.
mentionedUserId(mention) ==
  FirstIndex({i \in 1..Len(users) : users[i].username = mention})

\* Mutant of mentionsUser: any user of the mentioned name counts, not only
\* the one `find` returns.
mentionsUser_AnyNamesake(tweet, userId) ==
  \E i \in 1..Len(tweet.mentions) :
    HasUser(userId) /\ users[userId].username = tweet.mentions[i]

\* tweet.mentions.some(mention => mentionedUser?.id === userId)
mentionsUser(tweet, userId) ==
  \E i \in 1..Len(tweet.mentions) :
    LET mentionedUser == mentionedUserId(tweet.mentions[i])
    IN mentionedUser # NoUser /\ mentionedUser = userId

\* Mutant of uniqueTweets: nothing is filtered out.
uniqueTweets_KeepsAll(timeline) == timeline

\* timeline.filter((tweet, index, self) =>
\*   index === self.findIndex(t => t.id === tweet.id))
RECURSIVE uniqueTweets(_)
uniqueTweets(timeline) ==
  IF timeline = <<>> THEN <<>>
  ELSE LET n == Len(timeline)
           tweet == timeline[n]
           front == SubSeq(timeline, 1, n - 1)
       IN uniqueTweets(front)
            \o (IF \E i \in 1..(n - 1) : timeline[i].id = tweet.id
                THEN <<>> ELSE <<tweet>>)

getUserTimeline(userId) ==
  LET allTweets == getAllTweets
      userTweets == SelectSeq(allTweets, LAMBDA tweet : tweet.authorId = userId)
      mentionTweets ==
        SelectSeq(allTweets, LAMBDA tweet : mentionsUser(tweet, userId))
      timeline == userTweets \o mentionTweets
  IN SortNewestFirst(uniqueTweets(timeline))

NextTimeline ==
  \/ \E d \in Drafts : Len(users) < MaxAuthors /\ createUser(d)
  \/ \E c \in Contents, a \in UserRefs, at \in ClockReadings :
       createTweet(c, a, at)
  \/ \E id \in TweetRefs, c \in Contents : updateTweet(id, c)
  \/ \E id \in TweetRefs : deleteTweet(id)

SpecTimeline == Init /\ [][NextTimeline]_vars

\* ---------------------------------------------------------- mentions
MaxMentions == 2     \* mention rows stored at a time
MaxMentioned == 1    \* users created while mention rows are written

\* createMention stores a row for any pair of ids; it looks at neither the
\* tweets nor the users map.  (The row's id is fresh and its createdAt is
\* read by nothing, so a row is its tweetId and userId.)
createMention(tweetId, userId) ==
  /\ Len(mentions) < MaxMentions
  /\ mentions' = Append(mentions, [tweetId |-> tweetId, userId |-> userId])
  /\ ret' = Returned("createMention")
  /\ UNCHANGED <<users, tweets, follows, engagements, tweetStats,
                 nextTweetId, now, everEngaged, requests, awaiting, handlers>>

\* The loop of getTweetMentions: the stored user of each row, rows of
\* users that are not stored skipped.
RECURSIVE mentionedUsers(_)
mentionedUsers(rows) ==
  IF rows = <<>> THEN <<>>
  ELSE (IF HasUser(Head(rows).userId) THEN <<users[Head(rows).userId]>>
        ELSE <<>>) \o mentionedUsers(Tail(rows))

getTweetMentions(tweetId) ==
  mentionedUsers(SelectSeq(mentions, LAMBDA mention : mention.tweetId = tweetId))

\* The loop of getUserMentions: the tweet of each row with its author and
\* extracted mentions; rows whose tweet or whose tweet's author is not
\* stored are skipped.
RECURSIVE mentionTweets(_)
mentionTweets(rows) ==
  IF rows = <<>> THEN <<>>
  ELSE LET tweet == getTweetById(Head(rows).tweetId)
       IN (IF tweet # Undefined /\ HasUser(tweet.authorId)
           THEN <<[id |-> tweet.id,
                   content |-> tweet.content,
                   authorId |-> tweet.authorId,
                   createdAt |-> tweet.createdAt,
                   author |-> users[tweet.authorId],
                   mentions |-> extractMentionsFromContent(tweet.content)]>>
           ELSE <<>>) \o mentionTweets(Tail(rows))

getUserMentions(userId) ==
  SortNewestFirst(
    mentionTweets(SelectSeq(mentions, LAMBDA mention : mention.userId = userId)))

\* The tweet operations and createMention on one store.  One user draft,
\* one clock reading and one first content are enough here: the operations
\* read no name and no time, and updateTweet gives a tweet the other content.
NextMentions ==
  \/ Len(users) < MaxMentioned /\ createUser(GraphDraft)
  \/ \E a \in 1..Len(users) : createTweet(<<"@", "a", "b">>, a, now)
  \/ \E id \in TweetRefs, c \in Contents : updateTweet(id, c)
  \/ \E id \in TweetRefs : deleteTweet(id)
  \/ \E t \in 1..nextTweetId, u \in UserRefs : createMention(t, u)

SpecMentions == Init /\ [][NextMentions]_vars

\* ------------------------------------------------------ HTTP: auth
\* A handler's outcome: the status and the JSON body it sends.  A handler
\* that is suspended has sent nothing yet.
Pending == 0
Response(op, status, body) == [op |-> op, status |-> status, body |-> body]
Suspended(op) == [op |-> op, status |-> Pending, body |-> Undefined]

\* The Authorization header of a request: absent, a token jwt.verify
\* rejects (forged, malformed or expired), or a token signed by
\* generateToken for a user id.
NoToken == [absent |-> TRUE]
BadToken == [invalid |-> TRUE]
generateToken(userId) == [userId |-> userId]
Tokens == {NoToken, BadToken} \cup {generateToken(u) : u \in UserRefs}

\* bcrypt: the hash is not the password, and compare accepts a hash exactly
\* for the password it was made of.
hashPassword(password) == "$2a$10$" \o password
comparePassword(password, hash) == hashPassword(password) = hash

\* Addresses are scanned character by character where a login compares
\* them with user names.
ApiEmails == {<<"a", "@", "x">>, <<"b", "@", "x">>}

\* The bodies POST /api/auth/register is sent: every draft, and one that
\* lacks a required field.
RegisterBodies ==
  [username : Usernames, email : ApiEmails, password : Passwords]
    \cup {[email |-> <<"a", "@", "x">>, password |-> "pw"]}

\* insertUserSchema.parse succeeds: the picked columns are present.
\* (displayName, the fourth, is carried along and read by nothing.)
insertUserSchema(body) == {"username", "email", "password"} \subseteq DOMAIN body

getUserByUsername(username) ==
  FirstIndex({i \in 1..Len(users) : users[i].username = username})

getUserByEmail(email) ==
  FirstIndex({i \in 1..Len(users) : users[i].email = email})

\* Mutant of getUserByEmailOrUsername: only the user names are compared.
getUserByEmailOrUsername_UsernameOnly(emailOrUsername) ==
  FirstIndex({i \in 1..Len(users) : users[i].username = emailOrUsername})

getUserByEmailOrUsername(emailOrUsername) ==
  FirstIndex({i \in 1..Len(users) :
    users[i].email = emailOrUsername \/ users[i].username = emailOrUsername})

\* The user object the auth endpoints send: id, username, email (and
\* displayName, avatar, which are not modelled).
publicUser(user) ==
  [id |-> user.id, username |-> user.username, email |-> user.email]

MaxRegistered == 2   \* registrations that pass the duplicate checks
MaxInFlight == 2     \* register handlers suspended at a time

\* Mutant of registerChecks: the user name is not looked up.
registerChecks_EmailOnly(body) ==
  IF ~insertUserSchema(body) THEN "Required"
  ELSE IF getUserByEmail(body.email) # 0 THEN "Email already registered"
  ELSE NoErr

\* The register handler up to its duplicate checks: the message of the 400
\* it answers, or NoErr when it goes on to hash the password.
registerChecks(body) ==
  IF ~insertUserSchema(body) THEN "Required"
  ELSE IF getUserByEmail(body.email) # 0 THEN "Email already registered"
  ELSE IF getUserByUsername(body.username) # 0 THEN "Username already taken"
  ELSE NoErr

\* POST /api/auth/register from the request to `await hashPassword(...)`.
\* The store's methods are async functions that never wait for anything, so
\* the handler runs through them without another request being served;
\* bcrypt hashes off the event loop, so there it is suspended.
register(body) ==
  LET message == registerChecks(body)
  IN /\ IF message # NoErr
        THEN /\ ret' = Response("POST /api/auth/register", 400,
                                [message |-> message])
             /\ UNCHANGED requests
        ELSE /\ Len(users) + Len(requests) < MaxRegistered
             /\ Len(requests) < MaxInFlight
             /\ requests' = Append(requests, body)
             /\ ret' = Suspended("POST /api/auth/register")
     /\ UNCHANGED <<users, tweets, mentions, follows, engagements, tweetStats,
                    nextTweetId, now, everEngaged, awaiting, handlers>>

\* The body of the 201 of a registration that stored `user`.
registered(user) ==
  [token |-> generateToken(user.id), user |-> publicUser(user)]

\* The rest of the register handler, once the hash of suspended request i
\* is there: createUser and the 201.
registerHashed(i) ==
  /\ i \in 1..Len(requests)
  /\ LET userData == requests[i]
         user == [id |-> Len(users) + 1,
                  username |-> userData.username,
                  email |-> userData.email,
                  password |-> hashPassword(userData.password),
                  followerCount |-> 0,
                  followingCount |-> 0,
                  tweetCount |-> 0]
     IN /\ users' = Append(users, user)
        /\ ret' = Response("POST /api/auth/register", 201, registered(user))
  /\ requests' = RemoveAt(requests, i)
  /\ UNCHANGED <<tweets, mentions, follows, engagements, tweetStats,
                 nextTweetId, now, everEngaged, awaiting, handlers>>

\* The bodies POST /api/auth/login is sent.
LoginBodies ==
  [emailOrUsername : {<<"a">>, <<"a", "@", "x">>, <<>>},
   password : {"pw", "no"}]

\* POST /api/auth/login.  It is suspended in comparePassword, but it writes
\* nothing and answers from the record it read before, so it is one step.
login(body) ==
  LET user == getUserByEmailOrUsername(body.emailOrUsername)
  IN /\ ret' =
          IF body.emailOrUsername = <<>> \/ body.password = ""
          THEN Response("POST /api/auth/login", 400,
                        [message |-> "Email or username is required"])
          ELSE IF user = 0
          THEN Response("POST /api/auth/login", 401,
                        [message |-> "Invalid credentials"])
          ELSE IF ~comparePassword(body.password, users[user].password)
          THEN Response("POST /api/auth/login", 401,
                        [message |-> "Invalid credentials"])
          ELSE Response("POST /api/auth/login", 200,
                        [token |-> generateToken(users[user].id),
                         user |-> publicUser(users[user])])
     /\ UNCHANGED <<users, tweets, mentions, follows, engagements, tweetStats,
                    nextTweetId, now, everEngaged, requests, awaiting, handlers>>

\* Mutant of authenticateToken: the user of a verified token is not looked
\* up; req.user is made of the token's claim.
authenticateToken_NoLookup(op, token) ==
  IF token = NoToken
  THEN Response(op, 401, [message |-> "Access token required"])
  ELSE IF token = BadToken
  THEN Response(op, 403, [message |-> "Invalid token"])
  ELSE Response(op, Pending,
                IF HasUser(token.userId) THEN publicUser(users[token.userId])
                ELSE [id |-> token.userId, username |-> <<>>, email |-> <<>>])

\* authenticateToken: the response it sends itself, or, with status Pending,
\* the req.user it hands to the route.
authenticateToken(op, token) ==
  IF token = NoToken
  THEN Response(op, 401, [message |-> "Access token required"])
  ELSE IF token = BadToken
  THEN Response(op, 403, [message |-> "Invalid token"])
  ELSE IF ~HasUser(token.userId)
  THEN Response(op, 401, [message |-> "Invalid token"])
  ELSE Response(op, Pending, publicUser(users[token.userId]))

\* GET /api/auth/me: the response it sends.
meCall(token) ==
  LET auth == authenticateToken("GET /api/auth/me", token)
  IN IF auth.status # Pending THEN auth
     ELSE IF ~HasUser(auth.body.id)
     THEN Response("GET /api/auth/me", 404, [message |-> "User not found"])
     ELSE Response("GET /api/auth/me", 200, publicUser(users[auth.body.id]))

me(token) ==
     /\ ret' = meCall(token)
     /\ UNCHANGED <<users, tweets, mentions, follows, engagements, tweetStats,
                    nextTweetId, now, everEngaged, requests, awaiting, handlers>>

NextAuth ==
  \/ \E body \in RegisterBodies : register(body)
  \/ \E i \in 1..Len(requests) : registerHashed(i)
  \/ \E body \in LoginBodies : login(body)
  \/ \E token \in Tokens : me(token)

SpecAuth == Init /\ [][NextAuth]_vars

\* ---------------------------------------------------- HTTP: tweets
MaxContentLen == 280
MaxMentionRows == 4  \* mention rows stored at a time by the tweet routes

\* The bodies the tweet routes are sent: the contents, and an empty one.
TweetBodies == [content : Contents \cup {<<>>}]

\* insertTweetSchema.parse succeeds.
insertTweetSchema(body) ==
  Len(body.content) >= 1 /\ Len(body.content) <= MaxContentLen

\* getUserTweets: allTweets.filter(tweet => tweet.authorId === userId)
getUserTweets(userId) ==
  SelectSeq(getAllTweets, LAMBDA tweet : tweet.authorId = userId)

\* Mutant of mentionRows: a user named several times gets one row.
RECURSIVE mentionRows_OncePerUser(_, _)
mentionRows_OncePerUser(tweetId, names) ==
  IF names = <<>> THEN <<>>
  ELSE LET n == Len(names)
           mentionedUser == getUserByUsername(names[n])
       IN mentionRows_OncePerUser(tweetId, SubSeq(names, 1, n - 1))
            \o (IF mentionedUser # 0
                    /\ \A i \in 1..(n - 1) : names[i] # names[n]
                 THEN <<[tweetId |-> tweetId, userId |-> mentionedUser]>>
                 ELSE <<>>)

\* The mention loop of POST and PUT over the matches of /@(\w+)/g: for each
\* match whose name getUserByUsername finds, createMention(tweetId, user.id).
RECURSIVE mentionRows(_, _)
mentionRows(tweetId, names) ==
  IF names = <<>> THEN <<>>
  ELSE LET mentionedUser == getUserByUsername(Head(names))
       IN (IF mentionedUser # 0
           THEN <<[tweetId |-> tweetId, userId |-> mentionedUser]>>
           ELSE <<>>) \o mentionRows(tweetId, Tail(names))

\* const author = await storage.getUser(tweet.authorId)
getUser(id) == IF HasUser(id) THEN users[id] ELSE Undefined

\* The tweet routes answer with { ...tweet, author, mentions }.
tweetJson(tweet, content) ==
  [id |-> tweet.id,
   content |-> tweet.content,
   authorId |-> tweet.authorId,
   createdAt |-> tweet.createdAt,
   author |-> getUser(tweet.authorId),
   mentions |-> extractMentionsFromContent(content)]

\* POST /api/tweets, the tweet stamped with the clock reading `at`, as a
\* function of the maps it reads: the maps it leaves and the response it
\* sends.
postCall(token, body, at) ==
  LET auth == authenticateToken("POST /api/tweets", token)
      tweet == [id |-> nextTweetId + 1,
                content |-> body.content,
                authorId |-> auth.body.id,
                createdAt |-> at]
      rows == mentionRows(tweet.id, extractMentionsFromContent(body.content))
      refused ==
        IF auth.status # Pending THEN auth
        ELSE IF ~insertTweetSchema(body)
        THEN Response("POST /api/tweets", 400,
                      [message |-> "Tweet content is required"])
        ELSE Undefined
  IN IF refused # Undefined
     THEN [tweets |-> tweets, mentions |-> mentions,
           nextTweetId |-> nextTweetId, now |-> now, ret |-> refused]
     ELSE [tweets |-> Append(tweets, tweet),
           mentions |-> mentions \o rows,
           nextTweetId |-> nextTweetId + 1,
           now |-> at,
           ret |-> Response("POST /api/tweets", 201,
                            tweetJson(tweet, body.content))]

\* Every await of the handler is on a store method, so the handler is one
\* step.
postTweet(token, body, at) ==
  LET r == postCall(token, body, at)
  IN /\ r.ret.status = 201 =>
          /\ nextTweetId < MaxTweets
          /\ Len(r.mentions) <= MaxMentionRows
          /\ at \in ClockReadings
     /\ tweets' = r.tweets
     /\ mentions' = r.mentions
     /\ nextTweetId' = r.nextTweetId
     /\ now' = r.now
     /\ ret' = r.ret
     /\ UNCHANGED <<users, follows, engagements, tweetStats,
                    everEngaged, requests, awaiting, handlers>>

\* A GET route that answers an authenticated caller with a list the store
\* returns for req.user.id, the user id of the token: the response it sends.
getCall(op, token, list) ==
  LET auth == authenticateToken(op, token)
  IN IF auth.status # Pending THEN auth ELSE Response(op, 200, list)

getRoute(op, token, list) ==
     /\ ret' = getCall(op, token, list)
     /\ UNCHANGED <<users, tweets, mentions, follows, engagements, tweetStats,
                    nextTweetId, now, everEngaged, requests, awaiting, handlers>>

\* GET /api/tweets
getTweets(token) == getRoute("GET /api/tweets", token, getAllTweets)

\* GET /api/tweets/timeline
getTimeline(token) ==
  getRoute("GET /api/tweets/timeline", token,
           getUserTimeline(token.userId))

\* GET /api/tweets/user/:userId
getTweetsOfUser(token, userId) ==
  getRoute("GET /api/tweets/user/:userId", token, getUserTweets(userId))

\* GET /api/mentions
getMentions(token) ==
  getRoute("GET /api/mentions", token,
           getUserMentions(token.userId))

\* Mutant of ownsTweet: any authenticated caller passes.
ownsTweet_Anyone(existingTweet, user) == TRUE

\* existingTweet.authorId !== req.user!.id is the 403 of PUT and DELETE.
ownsTweet(existingTweet, user) == existingTweet.authorId = user.id

\* Mutant of putCall: the edit replaces the tweet's mention rows by those of
\* the new content.
putCall_Recomputed(token, tweetId, body) ==
  LET auth == authenticateToken("PUT /api/tweets/:tweetId", token)
      existingTweet == getTweetById(tweetId)
      updatedTweet == [existingTweet EXCEPT !.content = body.content]
      rows == mentionRows(tweetId, extractMentionsFromContent(body.content))
      refused ==
        IF auth.status # Pending THEN auth
        ELSE IF ~insertTweetSchema(body)
        THEN Response("PUT /api/tweets/:tweetId", 400,
                      [message |-> "Tweet content is required"])
        ELSE IF existingTweet = Undefined
        THEN Response("PUT /api/tweets/:tweetId", 404,
                      [message |-> "Tweet not found"])
        ELSE IF ~ownsTweet(existingTweet, auth.body)
        THEN Response("PUT /api/tweets/:tweetId", 403,
                      [message |-> "You can only edit your own tweets"])
        ELSE Undefined
  IN IF refused # Undefined
     THEN [tweets |-> tweets, mentions |-> mentions, ret |-> refused]
     ELSE [tweets |-> [tweets EXCEPT ![TweetIndex(tweets, tweetId)] =
                         updatedTweet],
           mentions |->
             SelectSeq(mentions, LAMBDA m : m.tweetId # tweetId) \o rows,
           ret |-> Response("PUT /api/tweets/:tweetId", 200,
                            tweetJson(updatedTweet, body.content))]

\* PUT /api/tweets/:tweetId as a function of the maps it reads: the maps it
\* leaves and the response it sends.
putCall(token, tweetId, body) ==
  LET auth == authenticateToken("PUT /api/tweets/:tweetId", token)
      existingTweet == getTweetById(tweetId)
      updatedTweet == [existingTweet EXCEPT !.content = body.content]
      rows == mentionRows(tweetId, extractMentionsFromContent(body.content))
      refused ==
        IF auth.status # Pending THEN auth
        ELSE IF ~insertTweetSchema(body)
        THEN Response("PUT /api/tweets/:tweetId", 400,
                      [message |-> "Tweet content is required"])
        ELSE IF existingTweet = Undefined
        THEN Response("PUT /api/tweets/:tweetId", 404,
                      [message |-> "Tweet not found"])
        ELSE IF ~ownsTweet(existingTweet, auth.body)
        THEN Response("PUT /api/tweets/:tweetId", 403,
                      [message |-> "You can only edit your own tweets"])
        ELSE Undefined
  IN IF refused # Undefined
     THEN [tweets |-> tweets, mentions |-> mentions, ret |-> refused]
     ELSE [tweets |-> [tweets EXCEPT ![TweetIndex(tweets, tweetId)] =
                         updatedTweet],
           mentions |-> mentions \o rows,
           ret |-> Response("PUT /api/tweets/:tweetId", 200,
                            tweetJson(updatedTweet, body.content))]

putTweet(token, tweetId, body) ==
  LET r == putCall(token, tweetId, body)
  IN /\ r.mentions # mentions => Len(r.mentions) <= MaxMentionRows
     /\ tweets' = r.tweets
     /\ mentions' = r.mentions
     /\ ret' = r.ret
     /\ UNCHANGED <<users, follows, engagements, tweetStats,
                    nextTweetId, now, everEngaged, requests, awaiting, handlers>>

\* DELETE /api/tweets/:tweetId as a function of the maps it reads.
deleteCall(token, tweetId) ==
  LET auth == authenticateToken("DELETE /api/tweets/:tweetId", token)
      existingTweet == getTweetById(tweetId)
      refused ==
        IF auth.status # Pending THEN auth
        ELSE IF existingTweet = Undefined
        THEN Response("DELETE /api/tweets/:tweetId", 404,
                      [message |-> "Tweet not found"])
        ELSE IF ~ownsTweet(existingTweet, auth.body)
        THEN Response("DELETE /api/tweets/:tweetId", 403,
                      [message |-> "You can only delete your own tweets"])
        ELSE Undefined
  IN IF refused # Undefined
     THEN [tweets |-> tweets, mentions |-> mentions, ret |-> refused]
     ELSE [tweets |-> RemoveAt(tweets, TweetIndex(tweets, tweetId)),
           mentions |-> SelectSeq(mentions, LAMBDA m : m.tweetId # tweetId),
           ret |-> Response("DELETE /api/tweets/:tweetId", 200,
                            [message |-> "Tweet deleted successfully"])]

deleteTweetById(token, tweetId) ==
  LET r == deleteCall(token, tweetId)
  IN /\ tweets' = r.tweets
     /\ mentions' = r.mentions
     /\ ret' = r.ret
     /\ UNCHANGED <<users, follows, engagements, tweetStats,
                    nextTweetId, now, everEngaged, requests, awaiting, handlers>>

\* The registrations of the users that post: a and b, each with its address.
PosterBodies ==
  {[username |-> <<"a">>, email |-> <<"a", "@", "x">>, password |-> "pw"],
   [username |-> <<"b">>, email |-> <<"b", "@", "x">>, password |-> "pw"]}

\* The routes that write: registration and the tweet routes.  The posters
\* register one after the other (concurrent registrations are SpecAuth's),
\* and the tweets are stamped with one clock reading.
NextApi ==
  \/ \E body \in PosterBodies : requests = <<>> /\ register(body)
  \/ \E i \in 1..Len(requests) : registerHashed(i)
  \/ \E token \in Tokens, body \in TweetBodies : postTweet(token, body, now)
  \/ \E token \in Tokens, tweetId \in TweetRefs, body \in TweetBodies :
       putTweet(token, tweetId, body)
  \/ \E token \in Tokens, tweetId \in TweetRefs :
       deleteTweetById(token, tweetId)

SpecApi == Init /\ [][NextApi]_vars

\* Every route: the ones that write, login, me and the four lists.
NextRoutes ==
  \/ NextApi
  \/ \E body \in LoginBodies : login(body)
  \/ \E token \in Tokens : me(token)
  \/ \E token \in Tokens : getTweets(token)
  \/ \E token \in Tokens : getTimeline(token)
  \/ \E token \in Tokens, userId \in UserRefs : getTweetsOfUser(token, userId)
  \/ \E token \in Tokens : getMentions(token)

SpecRoutes == Init /\ [][NextRoutes]_vars

\* PUT /api/tweets/:tweetId from its start to the end of
\* `await storage.updateTweet(...)`: a refusal of putCall is sent and the
\* handler is over, otherwise the edit is written and the handler is
\* suspended in front of its mention loop with the matches it has yet to
\* look at.  One PUT handler is suspended at a time; the requests that run
\* while it is suspended are those that run to their end.
putEdit(token, tweetId, body) ==
  LET r == putCall(token, tweetId, body)
  IN /\ IF r.ret.status # 200
        THEN /\ ret' = r.ret
             /\ UNCHANGED <<tweets, handlers>>
        ELSE /\ handlers = <<>>
             /\ tweets' = r.tweets
             /\ handlers' = Append(handlers,
                  [tweetId |-> tweetId,
                   updatedTweet |-> r.tweets[TweetIndex(tweets, tweetId)],
                   content |-> body.content,
                   names |-> extractMentionsFromContent(body.content)])
             /\ ret' = Suspended("PUT /api/tweets/:tweetId")
     /\ UNCHANGED <<users, mentions, follows, engagements, tweetStats,
                    nextTweetId, now, everEngaged, requests, awaiting>>

\* One turn of the mention loop of the i-th suspended PUT handler:
\* mentionRegex.exec, `await storage.getUserByUsername(match[1])` and, for a
\* name that is found, `await storage.createMention(tweetId, ...)`, which
\* looks at no tweet.
putMention(i) ==
  /\ i \in 1..Len(handlers)
  /\ handlers[i].names # <<>>
  /\ LET h == handlers[i]
         mentionedUser == getUserByUsername(Head(h.names))
     IN /\ mentionedUser # 0 => Len(mentions) < MaxMentionRows
        /\ mentions' =
             IF mentionedUser # 0
             THEN Append(mentions,
                         [tweetId |-> h.tweetId, userId |-> mentionedUser])
             ELSE mentions
        /\ handlers' = [handlers EXCEPT ![i].names = Tail(@)]
  /\ ret' = Suspended("PUT /api/tweets/:tweetId")
  /\ UNCHANGED <<users, tweets, follows, engagements, tweetStats,
                 nextTweetId, now, everEngaged, requests, awaiting>>

\* The end of the i-th suspended PUT handler, its loop over: the author is
\* looked up and the updated tweet is sent.
putRespond(i) ==
  /\ i \in 1..Len(handlers)
  /\ handlers[i].names = <<>>
  /\ handlers' = RemoveAt(handlers, i)
  /\ ret' = Response("PUT /api/tweets/:tweetId", 200,
                     tweetJson(handlers[i].updatedTweet, handlers[i].content))
  /\ UNCHANGED <<users, tweets, mentions, follows, engagements, tweetStats,
                 nextTweetId, now, everEngaged, requests, awaiting>>

\* The bodies of the interleaved requests: a content naming a twice, and
\* an empty one.  The race does not depend on which names a content holds.
RaceBodies == [content : {<<"@", "a", "@", "a">>, <<>>}]

\* The routes that write, a PUT interleaved at its awaits with the requests
\* that arrive while it runs.
NextRace ==
  \/ \E body \in PosterBodies : requests = <<>> /\ register(body)
  \/ \E i \in 1..Len(requests) : registerHashed(i)
  \/ \E token \in Tokens, body \in RaceBodies : postTweet(token, body, now)
  \/ \E token \in Tokens, tweetId \in TweetRefs, body \in RaceBodies :
       putEdit(token, tweetId, body)
  \/ \E i \in 1..Len(handlers) : putMention(i)
  \/ \E i \in 1..Len(handlers) : putRespond(i)
  \/ \E token \in Tokens, tweetId \in TweetRefs :
       deleteTweetById(token, tweetId)

SpecRace == Init /\ [][NextRace]_vars

\* The protected routes under every credential.  authenticateToken reads
\* nothing of a tweet, so the tweets are written with one content.
ProtectedBodies == [content : {<<"@", "a", "@", "a">>, <<>>}]

NextProtected ==
  \/ \E body \in PosterBodies : requests = <<>> /\ register(body)
  \/ \E i \in 1..Len(requests) : registerHashed(i)
  \/ \E token \in Tokens : me(token)
  \/ \E token \in Tokens, body \in ProtectedBodies :
       postTweet(token, body, now)
  \/ \E token \in Tokens : getTweets(token)
  \/ \E token \in Tokens : getTimeline(token)
  \/ \E token \in Tokens, userId \in UserRefs : getTweetsOfUser(token, userId)
  \/ \E token \in Tokens : getMentions(token)
  \/ \E token \in Tokens, tweetId \in TweetRefs, body \in ProtectedBodies :
       putTweet(token, tweetId, body)
  \/ \E token \in Tokens, tweetId \in TweetRefs :
       deleteTweetById(token, tweetId)

SpecProtected == Init /\ [][NextProtected]_vars

\* ------------------------------------------------- user lookups
\* The strings a draft's username and email are drawn from.  Both columns
\* are plain text (insertUserSchema validates neither), so a string can be
\* one user's name and another user's address.
LookupStrings == {<<"a">>, <<"b">>, <<"a", "@", "x">>}

UserDrafts ==
  [username : LookupStrings, email : LookupStrings, password : Passwords]

NextUsers == \E d \in UserDrafts : createUser(d)

SpecUsers == Init /\ [][NextUsers]_vars

\* ------------------------------------- store calls, interleaved
\* A store method is an async function: a call runs, without any other code
\* running, from its start to its first `await` and from each `await` to the
\* next, and between two such runs any other call may run.  followUser,
\* unfollowUser, createTweet, deleteTweet and createMention contain no
\* `await`: a call is one run, the action above.  engageWithTweet and
\* removeEngagement await updateTweetStatsForEngagement, which itself
\* contains no `await` and so has run to its end, its write done, when the
\* caller is suspended.
MaxStored == 2       \* records stored at a time, the users aside

Stored == Len(follows) + Len(engagements) + Len(tweets) + Len(mentions)

\* The outcome of a run that ends with the call suspended.
Awaits(op) ==
  [op |-> op, err |-> NoErr, awaits |-> "updateTweetStatsForEngagement"]

\* engageWithTweet from its start to its `await`; a call that throws does
\* so before, and is over.  One call is suspended at a time: the calls that
\* run while it is suspended are those that run to their end.
engageAwait(userId, tweetId, type) ==
  LET r == engageCall(engagements, tweetStats, userId, tweetId, type)
  IN /\ r.err = NoErr =>
          /\ Len(engagements) < MaxEngagements
          /\ Stored < MaxStored
          /\ awaiting = <<>>
     /\ engagements' = r.engagements
     /\ tweetStats' = r.tweetStats
     /\ everEngaged' = IF r.err = NoErr THEN everEngaged \cup {tweetId}
                       ELSE everEngaged
     /\ awaiting' = IF r.err = NoErr
                    THEN Append(awaiting, "engageWithTweet")
                    ELSE awaiting
     /\ ret' = IF r.err = NoErr THEN Awaits("engageWithTweet")
               ELSE Threw("engageWithTweet", r.err)
     /\ UNCHANGED <<users, tweets, mentions, follows, nextTweetId, now,
                    requests, handlers>>

\* removeEngagement from its start to its `await`.
removeAwait(userId, tweetId, type) ==
  LET r == removeCall(engagements, tweetStats, userId, tweetId, type)
  IN /\ r.err = NoErr => awaiting = <<>>
     /\ engagements' = r.engagements
     /\ tweetStats' = r.tweetStats
     /\ awaiting' = IF r.err = NoErr
                    THEN Append(awaiting, "removeEngagement")
                    ELSE awaiting
     /\ ret' = IF r.err = NoErr THEN Awaits("removeEngagement")
               ELSE Threw("removeEngagement", r.err)
     /\ UNCHANGED <<users, tweets, mentions, follows, nextTweetId, now,
                    everEngaged, requests, handlers>>

\* The rest of the i-th suspended call: `return engagement`, or the end of
\* removeEngagement.
resumed(i) ==
  /\ i \in 1..Len(awaiting)
  /\ awaiting' = RemoveAt(awaiting, i)
  /\ ret' = Returned(awaiting[i])
  /\ UNCHANGED <<users, tweets, mentions, follows, engagements, tweetStats,
                 nextTweetId, now, everEngaged, requests, handlers>>

\* The users, in the order they are created.
StoreDrafts ==
  <<[username |-> <<"a">>, email |-> "a@x", password |-> "pw"],
    [username |-> <<"b">>, email |-> "a@x", password |-> "pw"]>>

\* Calls of the store's writing methods, started in any order, each run of
\* a call between the runs of the others.  The calls name stored users and
\* the ids of tweets that were created (the methods look up neither); the
\* tweets and the mention rows are the first user's, and the engagements
\* are likes (the types differ in the counter they move).
NextStore ==
  \/ Len(users) < Len(StoreDrafts) /\ createUser(StoreDrafts[Len(users) + 1])
  \/ \E a \in 1..Len(users), b \in 1..Len(users) :
       /\ followCall(follows, users, a, b).err = NoErr => Stored < MaxStored
       /\ followUser(a, b)
  \/ \E a \in 1..Len(users), b \in 1..Len(users) : unfollowUser(a, b)
  \/ \E u \in 1..Len(users), t \in 1..nextTweetId :
       engageAwait(u, t, "like")
  \/ \E u \in 1..Len(users), t \in 1..nextTweetId :
       removeAwait(u, t, "like")
  \/ \E i \in 1..Len(awaiting) : resumed(i)
  \/ /\ Len(users) >= 1
     /\ Stored < MaxStored
     /\ createTweet(<<"@", "a", "b">>, 1, now)
  \/ \E t \in 1..nextTweetId :
       Len(users) >= 1 /\ Stored < MaxStored /\ createMention(t, 1)
  \/ \E id \in TweetRefs : updateTweet(id, <<"@", "a", "@", "a">>)
  \/ \E id \in TweetRefs : deleteTweet(id)

SpecStore == Init /\ [][NextStore]_vars

\* ---------------------------------------------------- the whole store
\* Every operation above, on one store.
Next ==
  \/ NextGraph
  \/ NextEngage
  \/ NextTimeline
  \/ NextMentions
  \/ NextAuth
  \/ NextRoutes
  \/ NextProtected
  \/ NextUsers
  \/ NextStore
  \/ NextRace

Spec == Init /\ [][Next]_vars

\* ------------------------------------------------- claims: timeline
\* The ids of the tweets getUserTimeline(userId) returns.
TimelineIds(userId) ==
  {getUserTimeline(userId)[i].id : i \in 1..Len(getUserTimeline(userId))}

\* The content holds an @token equal to this username.
HasToken(content, username) ==
  \E i \in 1..Len(extractMentionsFromContent(content)) :
    extractMentionsFromContent(content)[i] = username

\* The first stored user (in creation order) of this user's name is the user.
IsFirstOfName(userId) ==
  \A i \in 1..(userId - 1) : users[i].username # users[userId].username

\* C1 as claimed: for every stored user X, getUserTimeline(X) contains a
\* stored tweet t if and only if t.authorId = X or t's content contains an
\* @token equal to X's username.
C1_TimelineIffAuthoredOrMentioned ==
  \A x \in 1..Len(users), i \in 1..Len(tweets) :
    tweets[i].id \in TimelineIds(x) <=>
      (tweets[i].authorId = x
         \/ HasToken(tweets[i].content, users[x].username))

\* C1 as amended: for every stored user X, getUserTimeline(X) contains a
\* stored tweet t if and only if t's author is a stored user and either
\* t.authorId = X, or t's content contains an @token equal to X's username
\* and X is the first stored user of that username.  It contains no tweet
\* that is not stored.
C1_TimelineIffAuthoredOrResolvedMention ==
  \A x \in 1..Len(users) :
    /\ \A i \in 1..Len(tweets) :
         tweets[i].id \in TimelineIds(x) <=>
           /\ HasUser(tweets[i].authorId)
           /\ \/ tweets[i].authorId = x
              \/ /\ HasToken(tweets[i].content, users[x].username)
                 /\ IsFirstOfName(x)
    /\ TimelineIds(x) \subseteq {tweets[i].id : i \in 1..Len(tweets)}

\* Two users share the name a.  The first one's timeline holds a tweet of
\* the second that mentions a; the second one's timeline holds only that
\* tweet, its own, and not the first user's tweet "@a@a".
C1_Witness ==
  /\ Len(users) = 2
  /\ users[1].username = <<"a">>
  /\ users[2].username = <<"a">>
  /\ Len(tweets) = 2
  /\ tweets[1].authorId = 1
  /\ tweets[1].content = <<"@", "a", "@", "a">>
  /\ tweets[2].authorId = 2
  /\ tweets[2].content = <<"@", "a", "@", "a">>
  /\ TimelineIds(1) = {tweets[1].id, tweets[2].id}
  /\ TimelineIds(2) = {tweets[2].id}

\* C2: getUserTimeline(X) never contains the same tweet id twice (also when
\* X authored a tweet that mentions X, or a tweet mentions X several times)
\* and its entries are ordered by creation time, newest first.
C2_TimelineUniqueNewestFirst ==
  \A x \in UserRefs :
    LET timeline == getUserTimeline(x)
    IN \A i \in 1..Len(timeline), j \in 1..Len(timeline) :
         i < j => /\ timeline[i].id # timeline[j].id
                  /\ timeline[i].createdAt >= timeline[j].createdAt

\* User 1, named a, wrote "@a@a" (its own tweet, mentioning it twice) and
\* later a newer tweet; its timeline is the newer one, then the older one.
C2_Witness ==
  /\ Len(users) >= 1
  /\ users[1].username = <<"a">>
  /\ Len(tweets) = 2
  /\ tweets[1].authorId = 1
  /\ tweets[1].content = <<"@", "a", "@", "a">>
  /\ tweets[2].authorId = 1
  /\ tweets[2].createdAt > tweets[1].createdAt
  /\ Len(getUserTimeline(1)) = 2
  /\ getUserTimeline(1)[1].id = tweets[2].id
  /\ getUserTimeline(1)[2].id = tweets[1].id

\* --------------------------------------------- claims: social graph
\* Number of edges followerId -> followingId in the follows map fs.
EdgeCount(fs, a, b) ==
  Cardinality({i \in 1..Len(fs) :
                 fs[i].followerId = a /\ fs[i].followingId = b})

\* The follow edges of fs as a set of ordered pairs.
EdgePairs(fs) == {<<fs[i].followerId, fs[i].followingId>> : i \in 1..Len(fs)}

\* The counters of every user of us, by id.
Counters(us) ==
  [i \in 1..Len(us) |-> <<us[i].followerCount, us[i].followingCount,
                          us[i].tweetCount>>]

\* C3: for distinct stored users a and b with no edge a->b, followUser(a,b)
\* succeeds, adds exactly one edge a->b (and no other), raises
\* a.followingCount and b.followerCount by exactly 1, and changes no other
\* counter or field of any user.
C3_FollowAddsEdgeAndCounts ==
  [][\A a \in 1..Len(users), b \in 1..Len(users) :
       (a # b /\ EdgeCount(follows, a, b) = 0 /\ followUser(a, b)) =>
         /\ ret' = Returned("followUser")
         /\ Len(follows') = Len(follows) + 1
         /\ EdgeCount(follows', a, b) = 1
         /\ \A x \in UserRefs, y \in UserRefs :
              <<x, y>> # <<a, b>> =>
                EdgeCount(follows', x, y) = EdgeCount(follows, x, y)
         /\ Len(users') = Len(users)
         /\ users'[a] = [users[a] EXCEPT !.followingCount = @ + 1]
         /\ users'[b] = [users[b] EXCEPT !.followerCount = @ + 1]
         /\ \A u \in 1..Len(users) : u \notin {a, b} => users'[u] = users[u]
    ]_vars

\* A follow between two of three users has just succeeded; the third user
\* already has counters of its own.
C3_Witness ==
  /\ ret = Returned("followUser")
  /\ Len(users) = 3
  /\ Len(follows) = 2
  /\ \E a \in 1..3, b \in 1..3, c \in 1..3 :
       /\ Cardinality({a, b, c}) = 3
       /\ follows[2] = [followerId |-> a, followingId |-> b]
       /\ follows[1] = [followerId |-> c, followingId |-> b]
       /\ users[b].followerCount = 2
       /\ users[a].followingCount = 1
       /\ users[c].followingCount = 1

\* C4: unfollowUser is the exact inverse of followUser: in every reachable
\* state, for distinct stored users a and b, a successful followUser(a,b)
\* followed by unfollowUser(a,b) succeeds and restores the set of follow edges
\* (as ordered pairs) and every counter of every user.
C4_UnfollowInvertsFollow ==
  \A a \in 1..Len(users), b \in 1..Len(users) :
    LET f == followCall(follows, users, a, b)
        u == unfollowCall(f.follows, f.users, a, b)
    IN (a # b /\ f.err = NoErr) =>
         /\ u.err = NoErr
         /\ EdgePairs(u.follows) = EdgePairs(follows)
         /\ Counters(u.users) = Counters(users)

\* An unfollow has just succeeded (so a follow came before it), another edge
\* is still stored, with nonzero counters to restore, and a further follow
\* is possible.
C4_Witness ==
  /\ ret = Returned("unfollowUser")
  /\ Len(follows) = 1
  /\ \E a \in 1..Len(users), b \in 1..Len(users) :
       /\ a # b
       /\ EdgeCount(follows, a, b) = 0
       /\ users[a].followingCount = 1
       /\ followCall(follows, users, a, b).err = NoErr

\* C5: in every state reachable by followUser/unfollowUser calls, the
\* follows map holds no edge with followerId = followingId and at most one
\* edge per ordered pair.
C5_NoSelfFollowNoDuplicateEdge ==
  /\ \A i \in 1..Len(follows) : follows[i].followerId # follows[i].followingId
  /\ \A x \in UserRefs, y \in UserRefs : EdgeCount(follows, x, y) <= 1

\* A duplicate follow has just been refused while both directions of a pair
\* are stored.
C5_Witness ==
  /\ ret = Threw("followUser", "Already following this user")
  /\ \E a \in 1..Len(users), b \in 1..Len(users) :
       EdgeCount(follows, a, b) = 1 /\ EdgeCount(follows, b, a) = 1

\* C6: every failing follow-graph call writes nothing: followUser(a,a)
\* fails, followUser(a,b) fails when the edge a->b exists, unfollowUser(a,b)
\* fails when no edge a->b exists, and after every failing call the follows
\* map and every user record are as before the call.
C6_FailedGraphCallWritesNothing ==
  /\ [](\A a \in UserRefs, b \in UserRefs :
          /\ a = b =>
               followCall(follows, users, a, b).err = "Cannot follow yourself"
          /\ (a # b /\ EdgeCount(follows, a, b) > 0) =>
               followCall(follows, users, a, b).err
                 = "Already following this user"
          /\ EdgeCount(follows, a, b) = 0 =>
               unfollowCall(follows, users, a, b).err
                 = "Not following this user")
  /\ [][(ret'.op \in {"followUser", "unfollowUser"} /\ ret'.err # NoErr) =>
          UNCHANGED <<follows, users>>
       ]_vars

\* An unfollow of a missing edge has just failed in a store that holds
\* edges and nonzero counters.
C6_Witness ==
  /\ ret = Threw("unfollowUser", "Not following this user")
  /\ Len(follows) = 2
  /\ \E u \in 1..Len(users) : users[u].followerCount = 2

\* ----------------------------------------------- claims: engagement
\* Number of engagement records (userId, tweetId, type) in the map es.
RecordCount(es, u, t, k) ==
  Cardinality({i \in 1..Len(es) :
                 es[i].userId = u /\ es[i].tweetId = t /\ es[i].type = k})

\* The counter of a stats row that engagement type k moves.
CounterOf(stats, k) ==
  CASE k = "like" -> stats.likeCount
    [] k = "retweet" -> stats.retweetCount
    [] k = "bookmark" -> stats.bookmarkCount

\* C7: in every state reachable by engageWithTweet/removeEngagement calls,
\* the engagements map holds at most one record per (userId, tweetId, type),
\* so getUserEngagement(u,t) returns between 0 and 3 records with pairwise
\* distinct types.
C7_OneEngagementPerUserTweetType ==
  \A u \in EngagerIds, t \in EngTweetIds :
    /\ \A k \in EngagementTypes : RecordCount(engagements, u, t, k) <= 1
    /\ LET rows == getUserEngagement(u, t)
       IN /\ Len(rows) \in 0..3
          /\ \A i \in 1..Len(rows), j \in 1..Len(rows) :
               i # j => rows[i].type # rows[j].type

\* A duplicate like has just been refused, and the user holds two
\* engagements of different types on the tweet.
C7_Witness ==
  /\ ret = Threw("engageWithTweet", "Already liked this tweet")
  /\ \E u \in EngagerIds, t \in EngTweetIds :
       LET rows == getUserEngagement(u, t)
       IN Len(rows) = 2 /\ rows[1].type # rows[2].type

\* C8: every failing engagement call writes nothing: engageWithTweet(u,t,k)
\* fails when a record (u,t,k) exists, removeEngagement(u,t,k) fails when
\* none exists, and after every failing call the engagements map and the
\* tweetStats map (with the set of tweets that have a row) are as before.
C8_FailedEngagementCallWritesNothing ==
  /\ [](\A u \in EngagerIds, t \in EngTweetIds, k \in EngagementTypes :
          /\ RecordCount(engagements, u, t, k) > 0 =>
               engageCall(engagements, tweetStats, u, t, k).err
                 = "Already " \o k \o "d this tweet"
          /\ RecordCount(engagements, u, t, k) = 0 =>
               removeCall(engagements, tweetStats, u, t, k).err
                 = "No " \o k \o " found for this tweet")
  /\ [][(ret'.op \in {"engageWithTweet", "removeEngagement"}
           /\ ret'.err # NoErr) =>
          /\ UNCHANGED <<engagements, tweetStats>>
          /\ DOMAIN tweetStats' = DOMAIN tweetStats
       ]_vars

\* A removal of a missing bookmark has just failed for a tweet that has no
\* stats row, in a store that holds another tweet's record and row.
C8_Witness ==
  /\ ret = Threw("removeEngagement", "No bookmark found for this tweet")
  /\ Len(engagements) >= 1
  /\ \E t \in EngTweetIds : t \notin DOMAIN tweetStats
  /\ \E t \in EngTweetIds : t \in DOMAIN tweetStats

\* C9: when user u holds an engagement of type k on tweet t, a second
\* engageWithTweet(u,t,k) fails, while removeEngagement(u,t,k) followed by
\* engageWithTweet(u,t,k) both succeed and leave every counter of t's stats
\* row equal to its value before the remove.
C9_RemoveThenEngageRestoresStats ==
  \A u \in EngagerIds, t \in EngTweetIds, k \in EngagementTypes :
    RecordCount(engagements, u, t, k) > 0 =>
      LET again == engageCall(engagements, tweetStats, u, t, k)
          removed == removeCall(engagements, tweetStats, u, t, k)
          back == engageCall(removed.engagements, removed.tweetStats, u, t, k)
      IN /\ again.err # NoErr
         /\ removed.err = NoErr
         /\ back.err = NoErr
         /\ t \in DOMAIN tweetStats
         /\ back.tweetStats[t] = tweetStats[t]

\* An engagement has just been made again after its removal left the other
\* user's like in the stats: two users like the tweet, its likeCount is 2.
C9_Witness ==
  /\ ret = Returned("engageWithTweet")
  /\ \E t \in EngTweetIds :
       /\ t \in DOMAIN tweetStats
       /\ tweetStats[t].likeCount = 2
       /\ \A u \in EngagerIds : RecordCount(engagements, u, t, "like") = 1

RowsOf(ms, id) == SelectSeq(ms, LAMBDA m : m.tweetId = id)

\* C11: immediately after createTweet returns a tweet t (before any
\* engagement), getTweetStats(t.id) returns a stats row whose replyCount,
\* retweetCount and likeCount are all 0.
C11_StatsRowAfterCreateTweet ==
  (ret = Returned("createTweet") /\ tweets[Len(tweets)].id \notin everEngaged)
    => LET stats == getTweetStats(tweets[Len(tweets)].id)
       IN /\ stats # Undefined
          /\ stats.replyCount = 0
          /\ stats.retweetCount = 0
          /\ stats.likeCount = 0

\* C12: after a successful deleteTweet(t), getTweetById(t) returns undefined
\* and no mention row with tweetId = t remains (getTweetMentions(t) is
\* empty), while the mention rows of every other tweet are unchanged.
C12_DeleteTweetCascadesToItsMentions ==
  [][\A id \in TweetRefs :
       (ret'.op = "deleteTweet" /\ TweetIndex(tweets, id) # 0
          /\ deleteTweet(id)) =>
         /\ ret' = Returned("deleteTweet")
         /\ getTweetById(id)' = Undefined
         /\ RowsOf(mentions', id) = <<>>
         /\ getTweetMentions(id)' = <<>>
         /\ \A t \in TweetRefs \ {id} :
              RowsOf(mentions', t) = RowsOf(mentions, t)
         /\ Len(mentions') = Len(mentions) - Len(RowsOf(mentions, id))
    ]_vars

\* A tweet has just been deleted from a store that holds another tweet and
\* a mention row of that tweet, for a stored user.
C12_Witness ==
  /\ ret = Returned("deleteTweet")
  /\ Len(tweets) = 1
  /\ nextTweetId = 2
  /\ Len(RowsOf(mentions, tweets[1].id)) = 1
  /\ Len(getTweetMentions(tweets[1].id)) = 1

\* C13: updateTweet(id, ...) and deleteTweet(id) on an id that is not in the
\* tweets map fail with 'Tweet not found' and leave the tweets and mentions
\* maps unchanged.
C13_MissingTweetFailsWritesNothing ==
  [][\A id \in TweetRefs :
       TweetIndex(tweets, id) = 0 =>
         /\ \A c \in Contents :
              (ret'.op = "updateTweet" /\ updateTweet(id, c)) =>
                /\ ret' = Threw("updateTweet", "Tweet not found")
                /\ UNCHANGED <<tweets, mentions>>
         /\ (ret'.op = "deleteTweet" /\ deleteTweet(id)) =>
              /\ ret' = Threw("deleteTweet", "Tweet not found")
              /\ UNCHANGED <<tweets, mentions>>
    ]_vars

\* A delete of an id that is no longer in the map has just failed, while
\* mention rows of that very id are stored.
C13_Witness ==
  /\ ret = Threw("deleteTweet", "Tweet not found")
  /\ Len(tweets) = 1
  /\ \E id \in TweetRefs :
       /\ id # NoTweet
       /\ TweetIndex(tweets, id) = 0
       /\ Len(RowsOf(mentions, id)) = 2

\* C14: a successful updateTweet(id, c) changes only the content of tweet
\* id: its id, authorId, createdAt and every other field keep their previous
\* values, and every other tweet and every other map is unchanged.
C14_UpdateTweetChangesOnlyContent ==
  [][\A id \in TweetRefs, c \in Contents :
       (ret'.op = "updateTweet" /\ TweetIndex(tweets, id) # 0
          /\ updateTweet(id, c)) =>
         /\ ret' = Returned("updateTweet")
         /\ Len(tweets') = Len(tweets)
         /\ \A i \in 1..Len(tweets) :
              tweets'[i] = IF tweets[i].id = id
                           THEN [tweets[i] EXCEPT !.content = c]
                           ELSE tweets[i]
         /\ UNCHANGED <<users, mentions, follows, engagements, tweetStats>>
    ]_vars

\* The first of two tweets has just been given a content that differs from
\* the second one's, in a store that holds mention rows.
C14_Witness ==
  /\ ret = Returned("updateTweet")
  /\ Len(tweets) = 2
  /\ tweets[1].content # tweets[2].content
  /\ Len(mentions) = 2

\* --------------------------------------------------- claims: register
\* Some stored user has this email / this username.
EmailStored(email) == \E j \in 1..Len(users) : users[j].email = email
UsernameStored(username) ==
  \E j \in 1..Len(users) : users[j].username = username

\* C17: POST /api/auth/register with an email equal to a stored user's
\* email, or a username equal to a stored user's username, is answered 400
\* and leaves the users map unchanged; a registration with fresh email and
\* username is answered 201 and adds exactly one user (the handler goes on
\* to hash the password, and the step that ends it stores one user of the
\* requested name and address and answers 201).
C17_RegisterRefusesDuplicates ==
  [][/\ \A body \in RegisterBodies :
          (insertUserSchema(body) /\ register(body)) =>
            IF EmailStored(body.email) \/ UsernameStored(body.username)
            THEN /\ ret'.status = 400
                 /\ UNCHANGED <<users, requests, awaiting, handlers>>
            ELSE /\ ret' = Suspended("POST /api/auth/register")
                 /\ requests' = Append(requests, body)
                 /\ UNCHANGED users
     /\ \A i \in 1..Len(requests) :
          registerHashed(i) =>
            /\ ret'.status = 201
            /\ Len(users') = Len(users) + 1
            /\ SubSeq(users', 1, Len(users)) = users
            /\ users'[Len(users')].username = requests[i].username
            /\ users'[Len(users')].email = requests[i].email
            /\ ret'.body.user.id = users'[Len(users')].id
     /\ (ret'.op = "POST /api/auth/register" /\ ret'.status = 400) =>
          UNCHANGED users
    ]_vars

\* A registration under the stored user's name, with a fresh address, has
\* just been refused; the stored user's registration was answered 201, and
\* another one, with fresh name and address, is suspended.
C17_Witness ==
  /\ ret = Response("POST /api/auth/register", 400,
                    [message |-> "Username already taken"])
  /\ Len(users) = 1
  /\ Len(requests) = 1
  /\ requests[1].username # users[1].username
  /\ requests[1].email # users[1].email

\* C18: username and email are unique across all stored users in every
\* reachable state, including every interleaving of concurrent
\* POST /api/auth/register requests, whose handler suspends between its
\* duplicate checks and createUser.
C18_UsernameAndEmailUnique ==
  \A i \in 1..Len(users), j \in 1..Len(users) :
    i # j => /\ users[i].username # users[j].username
             /\ users[i].email # users[j].email

\* ------------------------------------------------ claims: tweet routes
\* The positions of content c where a match of /@(\w+)/g starts: an @ with
\* a word character behind it.
MentionStarts(c) ==
  {i \in 1..(Len(c) - 1) : c[i] = "@" /\ c[i + 1] \in WordChars}

\* The name of the match that starts at i: the longest run of word
\* characters behind the @.
NameAt(c, i) ==
  SubSeq(c, i + 1,
    CHOOSE j \in (i + 1)..Len(c) :
      /\ \A k \in (i + 1)..j : c[k] \in WordChars
      /\ j = Len(c) \/ c[j + 1] \notin WordChars)

\* Every raw token of c, in order of appearance.
RawTokens(c) ==
  [k \in 1..Cardinality(MentionStarts(c)) |->
     NameAt(c, CHOOSE i \in MentionStarts(c) :
                 Cardinality({j \in MentionStarts(c) : j < i}) = k - 1)]

\* The request passes authenticateToken: req.user is the token's user.
Authenticated(token) ==
  token \notin {NoToken, BadToken} /\ HasUser(token.userId)

\* C15: POST /api/tweets with content c stores exactly one tweet and exactly
\* one mention row per @token in c that equals a registered username (none
\* for a token that resolves to no user), each row for the new tweet and a
\* user of the token's name, while the mentions list of the response holds
\* every raw token of c; a POST that is not answered 201 stores nothing.
C15_PostStoresOneRowPerResolvedToken ==
  [][\A token \in Tokens, body \in TweetBodies :
       (ret'.op = "POST /api/tweets" /\ postTweet(token, body, now)) =>
         IF ret'.status = 201
         THEN LET c == body.content
                  added == SubSeq(mentions', Len(mentions) + 1, Len(mentions'))
              IN /\ Len(tweets') = Len(tweets) + 1
                 /\ SubSeq(tweets', 1, Len(tweets)) = tweets
                 /\ tweets'[Len(tweets')].content = c
                 /\ tweets'[Len(tweets')].id = ret'.body.id
                 /\ TweetIndex(tweets, ret'.body.id) = 0
                 /\ Len(mentions') >= Len(mentions)
                 /\ SubSeq(mentions', 1, Len(mentions)) = mentions
                 /\ \A k \in 1..Len(added) :
                      /\ added[k].tweetId = ret'.body.id
                      /\ HasUser(added[k].userId)
                 /\ \A i \in MentionStarts(c) :
                      Cardinality({k \in 1..Len(added) :
                        users[added[k].userId].username = NameAt(c, i)})
                      = IF UsernameStored(NameAt(c, i))
                        THEN Cardinality({j \in MentionStarts(c) :
                                            NameAt(c, j) = NameAt(c, i)})
                        ELSE 0
                 /\ Len(added) =
                      Cardinality({i \in MentionStarts(c) :
                                     UsernameStored(NameAt(c, i))})
                 /\ ret'.body.mentions = RawTokens(c)
         ELSE UNCHANGED <<tweets, mentions>>
    ]_vars

\* "@a@a" has just been posted and has two rows, a being registered, after
\* "@ab", which has none; the response lists a twice.
C15_Witness ==
  /\ ret.op = "POST /api/tweets"
  /\ ret.status = 201
  /\ ret.body.mentions = <<(<<"a">>), (<<"a">>)>>
  /\ Len(tweets) = 2
  /\ tweets[1].content = <<"@", "a", "b">>
  /\ RowsOf(mentions, tweets[1].id) = <<>>
  /\ tweets[2].id = ret.body.id
  /\ Len(RowsOf(mentions, tweets[2].id)) = 2

\* C16: after registered user bob posts, through POST /api/tweets, a tweet
\* whose content mentions registered user alice, alice's mentions list
\* (getUserMentions) contains exactly one entry for that tweet, with the
\* posted content and author bob; in general the list holds the tweets of
\* the mention rows referencing the user, newest first.
C16_MentionsListHasOneEntryForThePost ==
  /\ [](\A alice \in 1..Len(users) :
          LET list == getUserMentions(alice)
          IN /\ {list[k].id : k \in 1..Len(list)}
                  = {mentions[r].tweetId : r \in
                       {r \in 1..Len(mentions) :
                          /\ mentions[r].userId = alice
                          /\ TweetIndex(tweets, mentions[r].tweetId) # 0}}
             /\ \A k \in 1..Len(list), l \in 1..Len(list) :
                  k < l => list[k].createdAt >= list[l].createdAt)
  /\ [][\A token \in Tokens, body \in TweetBodies :
          (/\ ret'.op = "POST /api/tweets"
           /\ ret'.status = 201
           /\ postTweet(token, body, now)) =>
            \A alice \in 1..Len(users) :
              (/\ alice # token.userId
               /\ \E i \in MentionStarts(body.content) :
                    NameAt(body.content, i) = users[alice].username) =>
                LET list == getUserMentions(alice)'
                    entries == {k \in 1..Len(list) : list[k].id = ret'.body.id}
                IN /\ Cardinality(entries) = 1
                   /\ \A k \in entries :
                        /\ list[k].content = body.content
                        /\ list[k].author.id = token.userId
       ]_vars

\* The user objects of the last response: the `user` of register and login,
\* the body of me, the `author` of a tweet and of every tweet of a list.
ResponseUsers ==
  IF "status" \notin DOMAIN ret \/ ret.status \notin {200, 201} THEN {}
  ELSE CASE ret.op \in {"POST /api/auth/register", "POST /api/auth/login"} ->
              {ret.body.user}
         [] ret.op = "GET /api/auth/me" -> {ret.body}
         [] ret.op \in {"POST /api/tweets", "PUT /api/tweets/:tweetId"} ->
              {ret.body.author}
         [] ret.op \in {"GET /api/tweets", "GET /api/tweets/timeline",
                        "GET /api/tweets/user/:userId", "GET /api/mentions"} ->
              {ret.body[i].author : i \in 1..Len(ret.body)}
         [] OTHER -> {}

\* C19: no response of any endpoint contains a user's password hash: every
\* user object sent out, top-level (register, login, me) or embedded as the
\* author of a tweet (POST/PUT /api/tweets, GET /api/tweets, timeline, user
\* tweets, mentions), lacks the password field.
C19_NoPasswordInResponses ==
  \A user \in ResponseUsers : "password" \notin DOMAIN user

\* C20 as claimed: PUT or DELETE /api/tweets/:tweetId by an authenticated
\* caller whose id differs from the tweet's authorId is answered 403 and
\* leaves the tweets and mentions maps unchanged, and a request to either
\* route that changes one of the maps is authenticated as the author of the
\* tweet it names.
C20_NonAuthorIsAnswered403 ==
  /\ [](\A token \in Tokens, tweetId \in TweetRefs :
          LET existingTweet == getTweetById(tweetId)
              stranger == /\ Authenticated(token)
                          /\ existingTweet # Undefined
                          /\ existingTweet.authorId # token.userId
              author == /\ Authenticated(token)
                        /\ existingTweet # Undefined
                        /\ existingTweet.authorId = token.userId
              deleted == deleteCall(token, tweetId)
          IN /\ \A body \in TweetBodies :
                  LET put == putCall(token, tweetId, body)
                  IN /\ stranger => /\ put.ret.status = 403
                                    /\ put.tweets = tweets
                                    /\ put.mentions = mentions
                     /\ (put.tweets # tweets \/ put.mentions # mentions)
                          => author
             /\ stranger => /\ deleted.ret.status = 403
                            /\ deleted.tweets = tweets
                            /\ deleted.mentions = mentions
             /\ (deleted.tweets # tweets \/ deleted.mentions # mentions)
                  => author)
  /\ [][(/\ ret'.op \in {"PUT /api/tweets/:tweetId",
                          "DELETE /api/tweets/:tweetId"}
         /\ ret'.status = 403) => UNCHANGED <<tweets, mentions>>
       ]_vars

\* C20 as amended: such a request is answered 403, except a PUT whose body
\* fails insertTweetSchema, which is answered 400 (the body is parsed before
\* the tweet is looked up); either way the tweets and mentions maps are
\* unchanged, and a request to either route that changes one of the maps is
\* authenticated as the author of the tweet it names.
C20_NonAuthorIsRefused ==
  /\ [](\A token \in Tokens, tweetId \in TweetRefs :
          LET existingTweet == getTweetById(tweetId)
              stranger == /\ Authenticated(token)
                          /\ existingTweet # Undefined
                          /\ existingTweet.authorId # token.userId
              author == /\ Authenticated(token)
                        /\ existingTweet # Undefined
                        /\ existingTweet.authorId = token.userId
              deleted == deleteCall(token, tweetId)
          IN /\ \A body \in TweetBodies :
                  LET put == putCall(token, tweetId, body)
                  IN /\ stranger =>
                          /\ put.ret.status =
                               IF insertTweetSchema(body) THEN 403 ELSE 400
                          /\ put.tweets = tweets
                          /\ put.mentions = mentions
                     /\ (put.tweets # tweets \/ put.mentions # mentions)
                          => author
             /\ stranger => /\ deleted.ret.status = 403
                            /\ deleted.tweets = tweets
                            /\ deleted.mentions = mentions
             /\ (deleted.tweets # tweets \/ deleted.mentions # mentions)
                  => author)
  /\ [][(/\ ret'.op \in {"PUT /api/tweets/:tweetId",
                          "DELETE /api/tweets/:tweetId"}
         /\ ret'.status \in {400, 403}) => UNCHANGED <<tweets, mentions>>
       ]_vars

\* A PUT has just been answered 403 in a store where two users have a tweet
\* each and mention rows are stored.
C20_Witness ==
  /\ ret.op = "PUT /api/tweets/:tweetId"
  /\ ret.status = 403
  /\ Len(tweets) = 2
  /\ tweets[1].authorId # tweets[2].authorId
  /\ Len(mentions) >= 2

\* ------------------------------------------------ claims: authentication
\* The maps of the store, and the counter the tweet ids come from.
store == <<users, tweets, mentions, follows, engagements, tweetStats,
           nextTweetId>>

\* The rejections authenticateToken sends for a route.
AuthRejections(op) ==
  {Response(op, 401, [message |-> "Access token required"]),
   Response(op, 403, [message |-> "Invalid token"]),
   Response(op, 401, [message |-> "Invalid token"])}

\* The responses and the maps the protected routes leave for a request
\* that carries this token: one of each route and input.
ProtectedCalls(token) ==
  {[tweets |-> tweets, mentions |-> mentions, nextTweetId |-> nextTweetId,
    ret |-> r] :
     r \in {meCall(token),
            getCall("GET /api/tweets", token, getAllTweets),
            getCall("GET /api/tweets/timeline", token,
                    getUserTimeline(token.userId)),
            getCall("GET /api/mentions", token,
                    getUserMentions(token.userId))}
          \cup {getCall("GET /api/tweets/user/:userId", token,
                        getUserTweets(userId)) : userId \in UserRefs}}
  \cup {LET r == postCall(token, body, now)
        IN [tweets |-> r.tweets, mentions |-> r.mentions,
            nextTweetId |-> r.nextTweetId, ret |-> r.ret] :
          body \in TweetBodies}
  \cup {LET r == putCall(token, tweetId, body)
        IN [tweets |-> r.tweets, mentions |-> r.mentions,
            nextTweetId |-> nextTweetId, ret |-> r.ret] :
          tweetId \in TweetRefs, body \in TweetBodies}
  \cup {LET r == deleteCall(token, tweetId)
        IN [tweets |-> r.tweets, mentions |-> r.mentions,
            nextTweetId |-> nextTweetId, ret |-> r.ret] :
          tweetId \in TweetRefs}

ProtectedOps ==
  {"GET /api/auth/me", "POST /api/tweets", "GET /api/tweets",
   "GET /api/tweets/timeline", "GET /api/tweets/user/:userId",
   "GET /api/mentions", "PUT /api/tweets/:tweetId",
   "DELETE /api/tweets/:tweetId"}

\* C21: every protected endpoint rejects a request, before its handler runs
\* and without touching the store, with 401 when the credential is missing,
\* 403 when it fails verification, and 401 when it verifies but names a
\* user that is not stored; the handler runs only with req.user set to a
\* stored user.
C21_ProtectedRoutesRejectBadCredentials ==
  /\ [](\A token \in Tokens : \A call \in ProtectedCalls(token) :
          IF Authenticated(token)
          THEN call.ret \notin AuthRejections(call.ret.op)
          ELSE /\ call.ret.status = IF token = BadToken THEN 403 ELSE 401
               /\ call.ret \in AuthRejections(call.ret.op)
               /\ call.tweets = tweets
               /\ call.mentions = mentions
               /\ call.nextTweetId = nextTweetId)
  /\ [][(ret'.op \in ProtectedOps /\ ret' \in AuthRejections(ret'.op)) =>
          UNCHANGED store
       ]_vars

\* A POST that carries a verified token of a user that is not stored has
\* just been answered 401, in a store that holds users, a tweet and a
\* mention row.
C21_Witness ==
  /\ ret = Response("POST /api/tweets", 401, [message |-> "Invalid token"])
  /\ Len(users) = 2
  /\ Len(tweets) >= 1
  /\ Len(mentions) >= 1

\* ------------------------------------------- claims: interleaved calls
\* Number of follow edges that leave / that reach user u.
EdgesFrom(u) == Cardinality({i \in 1..Len(follows) : follows[i].followerId = u})
EdgesTo(u) == Cardinality({i \in 1..Len(follows) : follows[i].followingId = u})

\* Number of engagement records of type k for tweet t.
TypeCount(t, k) ==
  Cardinality({i \in 1..Len(engagements) :
                 engagements[i].tweetId = t /\ engagements[i].type = k})

\* C22: store operations are serialized: under any interleaving of
\* concurrently started store operations at their await points, all map
\* writes of one followUser, unfollowUser, engageWithTweet, removeEngagement
\* or deleteTweet call happen with no other operation running in between,
\* so that no operation ever observes a follow edge without both counter
\* updates, an engagement record without its stats update, or a removed
\* tweet whose mention rows still exist.  (What an operation observes is a
\* state between two runs: the counters of every stored user equal its
\* edges, the stats of every tweet equal its records, the step that removes
\* a tweet removes its rows, and a call that resumes writes nothing.)
C22_StoreWritesAreNotInterleaved ==
  /\ [](/\ \A u \in 1..Len(users) :
             /\ users[u].followingCount = EdgesFrom(u)
             /\ users[u].followerCount = EdgesTo(u)
         /\ \A t \in 1..nextTweetId, k \in EngagementTypes :
             IF t \in DOMAIN tweetStats
             THEN CounterOf(tweetStats[t], k) = TypeCount(t, k)
             ELSE TypeCount(t, k) = 0)
  /\ [][/\ \A id \in TweetRefs :
            (TweetIndex(tweets, id) # 0 /\ TweetIndex(tweets', id) = 0) =>
              RowsOf(mentions', id) = <<>>
        /\ (Len(awaiting') < Len(awaiting)) =>
              UNCHANGED <<users, tweets, mentions, follows, engagements,
                          tweetStats>>
       ]_vars

\* While a call of engageWithTweet is suspended at its await, its record
\* and its stats row written, the tweet has been deleted and a follow has
\* just been stored.
C22_Witness ==
  /\ awaiting = <<"engageWithTweet">>
  /\ ret = Returned("followUser")
  /\ Len(follows) = 1
  /\ Len(engagements) = 1
  /\ tweets = <<>>
  /\ tweetStats[engagements[1].tweetId].likeCount = 1

\* ------------------------------------------------ claims: user lookups
\* C23 as claimed: for every user draft d, if createUser(d) returns u then
\* getUser(u.id) returns a record equal to u in every field, and, when no
\* earlier user has the same username or email, getUserByUsername(d.username),
\* getUserByEmail(d.email) and getUserByEmailOrUsername of either string
\* return that same record; each lookup returns undefined for a string no
\* stored user has.
C23_LookupsReturnTheCreatedUser ==
  /\ [](\A str \in LookupStrings :
          /\ ~UsernameStored(str) => getUserByUsername(str) = 0
          /\ ~EmailStored(str) => getUserByEmail(str) = 0
          /\ (~UsernameStored(str) /\ ~EmailStored(str)) =>
               getUserByEmailOrUsername(str) = 0)
  /\ [](getUser(NoUser) = Undefined)
  /\ [][\A d \in UserDrafts :
          createUser(d) =>
            LET u == users'[Len(users')]
            IN /\ u.username = d.username
               /\ u.email = d.email
               /\ u.password = d.password
               /\ u.id \notin 1..Len(users)
               /\ \E id \in 1..Len(users') : id = u.id /\ getUser(id)' = u
               /\ (~UsernameStored(d.username) /\ ~EmailStored(d.email)) =>
                    /\ getUserByUsername(d.username)' = u.id
                    /\ getUserByEmail(d.email)' = u.id
                    /\ getUserByEmailOrUsername(d.username)' = u.id
                    /\ getUserByEmailOrUsername(d.email)' = u.id
       ]_vars

\* C23 as amended: ... getUserByUsername(d.username) returns that record
\* when no earlier user has d.username as its username, getUserByEmail(
\* d.email) when none has d.email as its email, and getUserByEmailOrUsername
\* of either string when no earlier user has that string as its username or
\* as its email (an earlier user whose email is d.username, or whose
\* username is d.email, is the one the lookup returns); each lookup returns
\* undefined for a string no stored user has in a field it compares.
C23_LookupsReturnTheFirstMatch ==
  /\ [](\A str \in LookupStrings :
          /\ ~UsernameStored(str) => getUserByUsername(str) = 0
          /\ ~EmailStored(str) => getUserByEmail(str) = 0
          /\ (~UsernameStored(str) /\ ~EmailStored(str)) =>
               getUserByEmailOrUsername(str) = 0)
  /\ [](getUser(NoUser) = Undefined)
  /\ [][\A d \in UserDrafts :
          createUser(d) =>
            LET u == users'[Len(users')]
            IN /\ u.username = d.username
               /\ u.email = d.email
               /\ u.password = d.password
               /\ u.id \notin 1..Len(users)
               /\ \E id \in 1..Len(users') : id = u.id /\ getUser(id)' = u
               /\ ~UsernameStored(d.username) =>
                    getUserByUsername(d.username)' = u.id
               /\ ~EmailStored(d.email) =>
                    getUserByEmail(d.email)' = u.id
               /\ \A str \in {d.username, d.email} :
                    IF ~UsernameStored(str) /\ ~EmailStored(str)
                    THEN getUserByEmailOrUsername(str)' = u.id
                    ELSE /\ getUserByEmailOrUsername(str)' # u.id
                         /\ getUserByEmailOrUsername(str)'
                              = getUserByEmailOrUsername(str)
       ]_vars

\* A user has just been created whose name is the address of the user
\* created before it; the lookup of that string by either field returns
\* the earlier user, the lookup by name the new one.
C23_Witness ==
  /\ ret = Returned("createUser")
  /\ Len(users) = 2
  /\ users[1].email = users[2].username
  /\ users[1].username # users[2].username
  /\ users[1].email # users[2].email
  /\ getUserByEmailOrUsername(users[2].username) = 1
  /\ getUserByUsername(users[2].username) = 2

\* ---------------------------------------------- claims: user counters
\* C25: createUser sets followerCount, followingCount and tweetCount to 0,
\* and no operation other than followUser and unfollowUser ever changes a
\* user's counters: in particular createTweet, updateTweet and deleteTweet
\* leave the author's tweetCount (and every user record) unchanged.
C25_CountersMovedOnlyByFollowCalls ==
  [][/\ ret'.op = "createUser" =>
          /\ Len(users') = Len(users) + 1
          /\ Counters(users')[Len(users')] = <<0, 0, 0>>
     /\ ret'.op \notin {"followUser", "unfollowUser"} =>
          \A u \in 1..Len(users) : users'[u] = users[u]
     /\ ret'.op \in {"createTweet", "updateTweet", "deleteTweet"} =>
          UNCHANGED users
    ]_vars

\* The first user, who follows the second, has just created a tweet: its
\* followingCount is 1 and its tweetCount is 0.
C25_Witness ==
  /\ ret = Returned("createTweet")
  /\ Len(users) = 2
  /\ tweets[Len(tweets)].authorId = 1
  /\ Counters(users)[1] = <<0, 1, 0>>
  /\ Counters(users)[2] = <<1, 0, 0>>

\* C26: in every state reachable by any sequence of createUser, followUser
\* and unfollowUser calls, every stored user u has followerCount equal to
\* the number of follow edges with followingId = u and followingCount equal
\* to the number of edges with followerId = u; hence no counter is ever
\* negative, and the floor at zero is never the operative branch: an
\* unfollow that succeeds finds both counters at 1 or more.
C26_CountersEqualEdgeCounts ==
  /\ \A u \in 1..Len(users) :
       /\ users[u].followerCount = EdgesTo(u)
       /\ users[u].followingCount = EdgesFrom(u)
       /\ users[u].followerCount >= 0
       /\ users[u].followingCount >= 0
  /\ \A a \in UserRefs, b \in UserRefs :
       unfollowCall(follows, users, a, b).err = NoErr =>
         /\ HasUser(a) => users[a].followingCount - 1 >= 0
         /\ HasUser(b) => users[b].followerCount - 1 >= 0

\* An unfollow has just succeeded and left one edge: the counters of the
\* two users of the edge are 1 where the edge counts and 0 elsewhere, and
\* a third user's are 0.
C26_Witness ==
  /\ ret = Returned("unfollowUser")
  /\ Len(users) = 3
  /\ Len(follows) = 1
  /\ HasUser(follows[1].followerId)
  /\ HasUser(follows[1].followingId)
  /\ Counters(users)[follows[1].followerId] = <<0, 1, 0>>
  /\ Counters(users)[follows[1].followingId] = <<1, 0, 0>>

\* -------------------------------------------- claims: engagement counts
\* C27: in every state reachable by any sequence of engageWithTweet and
\* removeEngagement calls, for every tweet id t with a stats row, likeCount,
\* retweetCount and bookmarkCount equal the number of engagement records
\* for t of type like, retweet and bookmark respectively, and replyCount
\* and impressionCount are 0; a tweet id with no stats row has no
\* engagement records.
C27_StatsEqualEngagementCounts ==
  \A t \in EngTweetIds :
    IF t \in DOMAIN tweetStats
    THEN /\ tweetStats[t].likeCount = TypeCount(t, "like")
         /\ tweetStats[t].retweetCount = TypeCount(t, "retweet")
         /\ tweetStats[t].bookmarkCount = TypeCount(t, "bookmark")
         /\ tweetStats[t].replyCount = 0
         /\ tweetStats[t].impressionCount = 0
         /\ tweetStats[t].tweetId = t
    ELSE \A i \in 1..Len(engagements) : engagements[i].tweetId # t

\* A removeEngagement call has just returned and left a tweet with one like
\* and no other record; the other tweet id has no stats row.
C27_Witness ==
  /\ ret = Returned("removeEngagement")
  /\ \E t \in EngTweetIds :
       /\ DOMAIN tweetStats = {t}
       /\ tweetStats[t].likeCount = 1
       /\ tweetStats[t].bookmarkCount = 0
       /\ tweetStats[t].retweetCount = 0
       /\ Len(engagements) = 1

RegisteredTokens(content) ==
  LET names == extractMentionsFromContent(content)
  IN {i \in 1..Len(names) :
        \E u \in 1..Len(users) : users[u].username = names[i]}

\* The rows of the mentions map ms of the pair (tweet, user).
PairRows(ms, tweetId, userId) ==
  {i \in 1..Len(ms) : ms[i].tweetId = tweetId /\ ms[i].userId = userId}

\* C24: editing a tweet through PUT /api/tweets/:tweetId never removes or
\* recomputes mention rows: every row that existed before the edit still
\* exists after it, and one new row is appended per @token of the new
\* content that equals a registered username, so k successive edits whose
\* content mentions user u leave at least k rows for that (tweet, u) pair.
C24_EditsOnlyAppendMentionRows ==
  [][ret'.op = "PUT /api/tweets/:tweetId" =>
       /\ Len(mentions') >= Len(mentions)
       /\ SubSeq(mentions', 1, Len(mentions)) = mentions
       /\ ret'.status # 200 => mentions' = mentions
       /\ ret'.status = 200 =>
            /\ Len(mentions') =
                 Len(mentions) + Cardinality(RegisteredTokens(ret'.body.content))
            /\ \A j \in (Len(mentions) + 1)..Len(mentions') :
                 /\ mentions'[j].tweetId = ret'.body.id
                 /\ <<users[mentions'[j].userId].username>>
                      \in {<<n>> : n \in
                           {extractMentionsFromContent(ret'.body.content)[i] :
                              i \in RegisteredTokens(ret'.body.content)}}
            /\ \A u \in 1..Len(users) :
                 Cardinality(PairRows(mentions', ret'.body.id, u)) =
                   Cardinality(PairRows(mentions, ret'.body.id, u))
                   + Cardinality({i \in RegisteredTokens(ret'.body.content) :
                        extractMentionsFromContent(ret'.body.content)[i] =
                          users[u].username})]_vars

\* An edit has just been answered with 200 and the tweet it edited has four
\* rows for one user: the two of an earlier content and the two of this one.
C24_Witness ==
  /\ ret.op = "PUT /api/tweets/:tweetId"
  /\ ret.status = 200
  /\ Cardinality(RegisteredTokens(ret.body.content)) = 2
  /\ \E u \in 1..Len(users) : Cardinality(PairRows(mentions, ret.body.id, u)) = 4

\* -------------------------------------------- claims: interleaved routes
\* C28: in every state reachable through the HTTP handlers, including
\* interleavings at the handlers' await points of a PUT (or POST) that is
\* still creating mention rows with a DELETE of the same tweet, every
\* mention row references a tweet that is still stored.
C28_MentionRowsReferenceStoredTweets ==
  \A i \in 1..Len(mentions) : TweetIndex(tweets, mentions[i].tweetId) # 0

\* -------------------------------------------- claims: rows and contents
\* The ids of the tweets getUserMentions(userId) returns.
MentionedIn(userId) ==
  {getUserMentions(userId)[i].id : i \in 1..Len(getUserMentions(userId))}

\* C30: the stored mention rows and the content-derived mentions agree: in
\* every state reachable through the HTTP handlers (register, create, edit,
\* delete, run one at a time), for every stored user u and stored tweet t,
\* t appears in getUserMentions(u) if and only if t's current content
\* contains an @token equal to u's username, i.e. if and only if t is in
\* getUserTimeline(u) by mention.
C30_MentionRowsAgreeWithContents ==
  \A u \in 1..Len(users) : \A i \in 1..Len(getAllTweets) :
    LET t == getAllTweets[i]
    IN /\ t.id \in MentionedIn(u) <=> HasToken(t.content, users[u].username)
       /\ t.id \in MentionedIn(u) <=> mentionsUser(t, u)

====
